---- MODULE Spec2Model ----
(***************************************************************************)
(* Movement, collision and frame scheduling of the birthday game:          *)
(* GameObject / Player (entities), ValidationUtils (geometry),             *)
(* CollisionSystem (movement response), Dog (proximity state machine)      *)
(* and Game (update loop, keyboard, dialogs); MailSystem (mail list and    *)
(* video modal), EventEmitter and AssetLoader.                             *)
(***************************************************************************)
EXTENDS Integers, Sequences, FiniteSets, TLC

VARIABLES
  player,     \* Game.player, a Player: x, y, width, height, speed, direction, lastPosition
  movement,   \* the input Game.updatePlayer sampled last: dx, dy, direction
  moved,      \* what the last Player.move returned
  call,       \* the last entity operation and its arguments
  ent,        \* a GameObject: the mailbox of the constructed Game, or any entity
  query,      \* the arguments of a geometry or collision query
  result,     \* what the query returned
  isRunning,      \* Game.isRunning
  lastFrameTime,  \* Game.lastFrameTime
  pending,        \* frame callbacks requested from the host and not yet fired
  now,            \* the host clock (performance.now)
  frameRuns,      \* update-then-render executions in the latest host frame
  lifecycle,      \* the last start/pause/resume/destroy call, and isRunning when it was made
  history,        \* whether start() and destroy() have been called so far
  dogs,       \* Game.dogs, a list of Dog
  audio,      \* the bgMusic and happybday audio elements
  frame,      \* what the latest executed frame did: step order, dogs ticked, error caught
  tickLog,    \* the latest call on dogs[1]: operation, player probe, side effects
  keys,            \* InputManager.keys, the keys held down
  musicStarted,    \* AudioManager.musicStarted
  musicRequested,  \* bgMusic.play() was called and its promise is not settled yet
  lastBumpTime,    \* Game.lastBumpTime
  ui,         \* the page: dialog, talk prompt, mailbox prompt, mail interface; Game.dogMessageIndex
  opens,      \* how many times a dialog was opened with each dog so far
  log,        \* the latest handler that ran, with what it found and what it did
  mail,       \* Game.mailSystem, a MailSystem, with the mail elements of the page
  emitter,    \* an EventEmitter: the listeners of one event
  loader      \* Game.assetLoader, an AssetLoader, and the image loads in progress

playerVars == <<player, movement, moved, call>>
entVars == <<ent>>
queryVars == <<query, result>>
loopVars == <<isRunning, lastFrameTime, pending, now, frameRuns, lifecycle, history>>
dogVars == <<dogs, audio, frame, tickLog>>
uiVars == <<keys, musicStarted, musicRequested, lastBumpTime, ui, opens, log>>
extVars == <<mail, emitter, loader>>

vars == <<player, movement, moved, call, ent, query, result,
          isRunning, lastFrameTime, pending, now, frameRuns, lifecycle, history,
          dogs, audio, frame, tickLog,
          keys, musicStarted, musicRequested, lastBumpTime, ui, opens, log,
          mail, emitter, loader>>

----------------------------------------------------------------------------
(* CONFIG (gameConfig.js) *)

CANVAS_WIDTH == 1094
CANVAS_HEIGHT == 1112

INITIAL_X == 465
INITIAL_Y == 210
SPEED == 2
PLAYER_WIDTH == 16
PLAYER_HEIGHT == 32

MAILBOX_X == 750
MAILBOX_Y == 330
MAILBOX_SIZE == 50

Rect(x, y, w, h) == [x |-> x, y |-> y, width |-> w, height |-> h]

COLLISION_BOXES ==
  << Rect(0, 0, 1094, 30),
     Rect(0, 0, 10, 1112),
     Rect(1030, 0, 30, 1112),
     Rect(0, 860, 600, 300),
     Rect(0, 950, 1200, 300),
     Rect(0, 170, 1200, 10),
     Rect(550, 0, 10, 300),
     Rect(700, 0, 10, 300),
     Rect(560, 300, 270, 10),
     Rect(200, 0, 10, 300),
     Rect(380, 260, 5, 50),
     Rect(930, 450, 130, 350),
     Rect(0, 300, 370, 10),
     Rect(0, 260, 370, 10) >>

----------------------------------------------------------------------------
(* ValidationUtils *)

MathMin(a, b) == IF a < b THEN a ELSE b
MathMax(a, b) == IF a > b THEN a ELSE b

clamp(value, min, max) == MathMin(MathMax(value, min), max)

\* a plausible slip: edges that only touch count as a collision
isCollidingInclusive(rect1, rect2) ==
  /\ rect1.x <= rect2.x + rect2.width
  /\ rect1.x + rect1.width >= rect2.x
  /\ rect1.y <= rect2.y + rect2.height
  /\ rect1.y + rect1.height >= rect2.y

isColliding(rect1, rect2) ==
  /\ rect1.x < rect2.x + rect2.width
  /\ rect1.x + rect1.width > rect2.x
  /\ rect1.y < rect2.y + rect2.height
  /\ rect1.y + rect1.height > rect2.y

\* Array.prototype.some over the collision boxes
some(boxes, bounds) == \E i \in 1..Len(boxes) : isColliding(bounds, boxes[i])

----------------------------------------------------------------------------
(* GameObject *)

GameObject(x, y, width, height) ==
  [x |-> clamp(x, 0, CANVAS_WIDTH - width),
   y |-> clamp(y, 0, CANVAS_HEIGHT - height),
   width |-> width,
   height |-> height]

getBounds(o) == Rect(o.x, o.y, o.width, o.height)

\* a plausible slip: the upper bound ignores the entity's size
setPositionUnsized(o, x, y) ==
  [o EXCEPT !.x = clamp(x, 0, CANVAS_WIDTH),
            !.y = clamp(y, 0, CANVAS_HEIGHT)]

setPosition(o, x, y) ==
  [o EXCEPT !.x = clamp(x, 0, CANVAS_WIDTH - o.width),
            !.y = clamp(y, 0, CANVAS_HEIGHT - o.height)]

moveBy(o, dx, dy) == setPosition(o, o.x + dx, o.y + dy)

\* the GameObject part of new Mailbox()
NewMailbox == GameObject(MAILBOX_X, MAILBOX_Y, MAILBOX_SIZE, MAILBOX_SIZE)

----------------------------------------------------------------------------
(* Player *)

Directions == {"up", "down", "left", "right"}

NewPlayer ==
  LET base == GameObject(INITIAL_X, INITIAL_Y, PLAYER_WIDTH, PLAYER_HEIGHT)
  IN  [x |-> base.x, y |-> base.y, width |-> base.width, height |-> base.height,
       speed |-> SPEED, direction |-> "down",
       lastPosition |-> [x |-> base.x, y |-> base.y]]

\* a plausible slip: only the world boundaries are checked
canMoveToBoundsOnly(p, x, y, collisionBoxes) ==
  ~ (x < 0 \/ y < 0 \/ x + p.width > CANVAS_WIDTH \/ y + p.height > CANVAS_HEIGHT)

canMoveTo(p, x, y, collisionBoxes) ==
  LET playerBounds == Rect(x, y, p.width, p.height)
  IN  IF x < 0 \/ y < 0 \/ x + p.width > CANVAS_WIDTH \/ y + p.height > CANVAS_HEIGHT
      THEN FALSE
      ELSE ~ some(collisionBoxes, playerBounds)

\* Player.move: the new player and the returned flag
move(p, dx, dy, collisionBoxes) ==
  LET p1   == [p EXCEPT !.lastPosition = [x |-> p.x, y |-> p.y]]
      newX == p.x + dx
      newY == p.y + dy
  IN  IF canMoveTo(p1, newX, newY, collisionBoxes)
      THEN [player |-> [p1 EXCEPT !.x = clamp(newX, 0, CANVAS_WIDTH - p.width),
                                  !.y = clamp(newY, 0, CANVAS_HEIGHT - p.height)],
            moved  |-> TRUE]
      ELSE [player |-> p1, moved |-> FALSE]

\* a plausible slip: the direction is not validated
setDirectionUnchecked(p, direction) == [p EXCEPT !.direction = direction]

setDirection(p, direction) ==
  IF direction \in Directions THEN [p EXCEPT !.direction = direction] ELSE p

----------------------------------------------------------------------------
(* InputManager.getMovementInput, on the set of keys held down *)

MoveKeys == {"ArrowLeft", "a", "ArrowRight", "d", "ArrowUp", "w", "ArrowDown", "s"}

\* a plausible slip: left is tested after right, so left wins
getMovementInputLeftWins(pressed) ==
  LET m0 == [dx |-> 0, dy |-> 0, direction |-> "null"]
      m1 == IF "ArrowRight" \in pressed \/ "d" \in pressed
            THEN [m0 EXCEPT !.dx = 1, !.direction = "right"] ELSE m0
      m2 == IF "ArrowLeft" \in pressed \/ "a" \in pressed
            THEN [m1 EXCEPT !.dx = -1, !.direction = "left"] ELSE m1
      m3 == IF "ArrowUp" \in pressed \/ "w" \in pressed
            THEN [m2 EXCEPT !.dy = -1, !.direction = "up"] ELSE m2
      m4 == IF "ArrowDown" \in pressed \/ "s" \in pressed
            THEN [m3 EXCEPT !.dy = 1, !.direction = "down"] ELSE m3
  IN  m4

getMovementInput(pressed) ==
  LET m0 == [dx |-> 0, dy |-> 0, direction |-> "null"]
      m1 == IF "ArrowLeft" \in pressed \/ "a" \in pressed
            THEN [m0 EXCEPT !.dx = -1, !.direction = "left"] ELSE m0
      m2 == IF "ArrowRight" \in pressed \/ "d" \in pressed
            THEN [m1 EXCEPT !.dx = 1, !.direction = "right"] ELSE m1
      m3 == IF "ArrowUp" \in pressed \/ "w" \in pressed
            THEN [m2 EXCEPT !.dy = -1, !.direction = "up"] ELSE m2
      m4 == IF "ArrowDown" \in pressed \/ "s" \in pressed
            THEN [m3 EXCEPT !.dy = 1, !.direction = "down"] ELSE m3
  IN  m4

\* every input a frame can sample
MovementInputs == {getMovementInput(ks) : ks \in SUBSET MoveKeys}

NoQuery == [rect |-> Rect(0, 0, 0, 0), dx |-> 0, dy |-> 0, boxes |-> <<>>]
NoResult == [fn |-> "none"]

NoCall == [op |-> "none", argX |-> 0, argY |-> 0, boxes |-> "none"]

----------------------------------------------------------------------------
(* CONFIG.DOGS, CONFIG.AUDIO *)

INTERACTION_DISTANCE == 100
ME_INTERACTION_DISTANCE == 150
MAILBOX_INTERACTION_DISTANCE == 120
\* volumes are kept in tenths: 10 is the volume 1.0
DEFAULT_VOLUME == 10

\* scale is written in hundredths: 0.12 is 12
ROTI == [x |-> 300, y |-> 400, scale |-> 12, width |-> 450, height |-> 800]
KHUSHI == [x |-> 150, y |-> 250, scale |-> 10, width |-> 700, height |-> 740]
ME == [x |-> 860, y |-> 432, scale |-> 19, width |-> 550, height |-> 900]

----------------------------------------------------------------------------
(* GameObject.getCenter / distanceTo, ValidationUtils.calculateDistance *)

\* the centre of o in quarter pixels; o keeps its lengths in 1/perPixel pixels
getCenter(o, perPixel) ==
  [x |-> (4 \div perPixel) * o.x + (2 \div perPixel) * o.width,
   y |-> (4 \div perPixel) * o.y + (2 \div perPixel) * o.height]

\* a distance is kept as its square, in quarter pixels; NaN is not a number
NaN == [nan |-> TRUE, sq |-> 0]

calculateDistance(x1, y1, x2, y2) ==
  LET dx == x1 - x2
      dy == y1 - y2
  IN  [nan |-> FALSE, sq |-> dx * dx + dy * dy]

\* what a caller passes as the player: a Player whose coordinates are numbers,
\* a Player whose coordinates are not numbers, or nothing at all
Given(p) ==
  [given |-> TRUE, numeric |-> TRUE, x |-> p.x, y |-> p.y,
   width |-> p.width, height |-> p.height]
NotNumeric ==
  [given |-> TRUE, numeric |-> FALSE, x |-> 0, y |-> 0,
   width |-> PLAYER_WIDTH, height |-> PLAYER_HEIGHT]
Missing ==
  [given |-> FALSE, numeric |-> FALSE, x |-> 0, y |-> 0, width |-> 0, height |-> 0]

\* GameObject.distanceTo from the dog or mailbox o to the player other
distanceTo(o, perPixel, other) ==
  IF ~ other.numeric
  THEN NaN
  ELSE LET center1 == getCenter(o, perPixel)
           center2 == getCenter(other, 1)
       IN  calculateDistance(center1.x, center1.y, center2.x, center2.y)

\* a plausible slip: <= for <
lessThanInclusive(distance, threshold) ==
  /\ ~ distance.nan
  /\ distance.sq <= (4 * threshold) * (4 * threshold)

\* distance < threshold; a comparison with NaN is false
lessThan(distance, threshold) ==
  /\ ~ distance.nan
  /\ distance.sq < (4 * threshold) * (4 * threshold)

----------------------------------------------------------------------------
(* Dog *)

\* Me is 104.5 pixels wide: a dog's x, y, width and height are kept in half pixels
Dog(name, config) ==
  LET width  == (config.width * config.scale) \div 50
      height == (config.height * config.scale) \div 50
  IN  [name |-> name,
       x |-> clamp(2 * config.x, 0, 2 * CANVAS_WIDTH - width),
       y |-> clamp(2 * config.y, 0, 2 * CANVAS_HEIGHT - height),
       width |-> width,
       height |-> height,
       state |-> "sit",
       barked |-> FALSE,
       audio |-> FALSE,
       stateChangeTime |-> 0]

\* audio is TRUE for an audio element, FALSE for null
setAudio(d, a) == [d EXCEPT !.audio = a]

\* a plausible slip: the timestamp is written on every call
dogSetStateAlways(d, newState, dateNow) ==
  [d EXCEPT !.state = newState, !.stateChangeTime = dateNow]

\* Dog.setState
dogSetState(d, newState, dateNow) ==
  IF d.state # newState
  THEN [d EXCEPT !.state = newState, !.stateChangeTime = dateNow]
  ELSE d

\* the outcome of a call on a dog: the dog, the audio elements, the audio calls
\* made, and whether the call threw
Outcome(d, a, effects, thrown) ==
  [dog |-> d, audio |-> a, effects |-> effects, thrown |-> thrown]

threshold(d) ==
  IF d.name = "Me" THEN ME_INTERACTION_DISTANCE ELSE INTERACTION_DISTANCE

\* a plausible slip: the ordinary dogs bark on every tick in range
activateUnlatched(d, specialAudio, bgAudio, a, host) ==
  IF d.name = "Me" /\ d.state # "jump"
  THEN LET d1 == [dogSetState(d, "jump", host.now) EXCEPT !.barked = TRUE]
           a1 == IF bgAudio THEN [a EXCEPT !.bgVolume = 0] ELSE a
           e1 == IF bgAudio THEN {"bgMusic.volume=0"} ELSE {}
       IN  IF ~ specialAudio
           THEN Outcome(d1, a1, e1, FALSE)
           ELSE IF host.playThrows
                THEN Outcome(d1, a1, e1 \cup {"happybday.play"}, TRUE)
                ELSE Outcome(d1, [a1 EXCEPT !.happybday = "playing"],
                             e1 \cup {"happybday.play"}, FALSE)
  ELSE IF d.name # "Me"
  THEN LET d1 == [dogSetState(d, "jump", host.now) EXCEPT !.barked = TRUE]
       IN  IF d.audio
           THEN Outcome(d1, a, {"bark.play"}, host.playThrows)
           ELSE Outcome(d1, a, {}, FALSE)
  ELSE Outcome(d, a, {}, FALSE)

\* Dog.activate; host.now is Date.now(), host.playThrows whether play() throws
activate(d, specialAudio, bgAudio, a, host) ==
  IF d.name = "Me" /\ d.state # "jump"
  THEN LET d1 == [dogSetState(d, "jump", host.now) EXCEPT !.barked = TRUE]
           a1 == IF bgAudio THEN [a EXCEPT !.bgVolume = 0] ELSE a
           e1 == IF bgAudio THEN {"bgMusic.volume=0"} ELSE {}
       IN  IF ~ specialAudio
           THEN Outcome(d1, a1, e1, FALSE)
           ELSE IF host.playThrows
                THEN Outcome(d1, a1, e1 \cup {"happybday.play"}, TRUE)
                ELSE Outcome(d1, [a1 EXCEPT !.happybday = "playing"],
                             e1 \cup {"happybday.play"}, FALSE)
  ELSE IF d.name # "Me" /\ ~ d.barked
  THEN LET d1 == [dogSetState(d, "jump", host.now) EXCEPT !.barked = TRUE]
       IN  IF d.audio
           THEN Outcome(d1, a, {"bark.play"}, host.playThrows)
           ELSE Outcome(d1, a, {}, FALSE)
  ELSE Outcome(d, a, {}, FALSE)

\* a plausible slip: the latch is not cleared when the player leaves
deactivateKeepingLatch(d, specialAudio, bgAudio, a, host) ==
  IF d.name = "Me" /\ d.state # "sit"
  THEN LET d1 == dogSetState(d, "sit", host.now)
           a1 == IF specialAudio THEN [a EXCEPT !.happybday = "paused"] ELSE a
           e1 == IF specialAudio THEN {"happybday.pause"} ELSE {}
       IN  IF bgAudio
           THEN Outcome(d1, [a1 EXCEPT !.bgVolume = 10], e1 \cup {"bgMusic.volume=1"}, FALSE)
           ELSE Outcome(d1, a1, e1, FALSE)
  ELSE IF d.name # "Me"
  THEN Outcome(dogSetState(d, "sit", host.now), a, {}, FALSE)
  ELSE Outcome(d, a, {}, FALSE)

\* Dog.deactivate
deactivate(d, specialAudio, bgAudio, a, host) ==
  IF d.name = "Me" /\ d.state # "sit"
  THEN LET d1 == [dogSetState(d, "sit", host.now) EXCEPT !.barked = FALSE]
           a1 == IF specialAudio THEN [a EXCEPT !.happybday = "paused"] ELSE a
           e1 == IF specialAudio THEN {"happybday.pause"} ELSE {}
       IN  IF bgAudio
           THEN Outcome(d1, [a1 EXCEPT !.bgVolume = 10], e1 \cup {"bgMusic.volume=1"}, FALSE)
           ELSE Outcome(d1, a1, e1, FALSE)
  ELSE IF d.name # "Me"
  THEN Outcome([dogSetState(d, "sit", host.now) EXCEPT !.barked = FALSE], a, {}, FALSE)
  ELSE Outcome(d, a, {}, FALSE)

\* Dog.update(player, specialAudio, bgAudio); a missing player makes
\* other.getCenter() throw before anything is written
dogUpdate(d, other, specialAudio, bgAudio, a, host) ==
  IF ~ other.given
  THEN Outcome(d, a, {}, TRUE)
  ELSE LET distance == distanceTo(d, 2, other)
       IN  IF lessThan(distance, threshold(d))
           THEN activate(d, specialAudio, bgAudio, a, host)
           ELSE deactivate(d, specialAudio, bgAudio, a, host)

isPlayerInRange(d, other) == lessThan(distanceTo(d, 2, other), threshold(d))

\* Dog.reset
dogReset(d, dateNow) ==
  [dogSetState(d, "sit", dateNow) EXCEPT !.barked = FALSE, !.stateChangeTime = 0]

\* the happybday element's onended handler, installed by Me's activate
onended(d, bgAudio, a) ==
  IF d.state = "jump" /\ bgAudio
  THEN [a EXCEPT !.happybday = "paused", !.bgVolume = 10]
  ELSE [a EXCEPT !.happybday = "paused"]

\* Mailbox.isPlayerNearby
isPlayerNearby(m, other) ==
  lessThan(distanceTo(m, 1, other), MAILBOX_INTERACTION_DISTANCE)

----------------------------------------------------------------------------
(* AudioManager.setVolume and MailSystem *)

\* AudioManager.setVolume('bgMusic', volume): volumes are kept in tenths
setVolume(a, volume) == [a EXCEPT !.bgVolume = MathMax(0, MathMin(10, volume))]

\* MAIL_DATA.length
MAIL_DATA_LENGTH == 20

\* a MailSystem as constructed over count messages, with the page's mail
\* elements: display of the mail container and of the video modal, the
\* 'hidden' class of the two arrows, whether videoPlayer.onended is set, and
\* the frame callbacks of openMailbox that have not fired yet
MailSystem(count) ==
  [count |-> count,
   viewedMessages |-> {},
   currentVideoIndex |-> -1,
   mailContainer |-> "none",
   videoModal |-> "none",
   videoNavLeftHidden |-> FALSE,
   videoNavRightHidden |-> FALSE,
   onended |-> FALSE,
   shows |-> 0]

\* what a MailSystem method leaves: the mail system, the audio elements and
\* whether an error was handed to ErrorHandler.handleError
MailOutcome(m, a, logged) == [mail |-> m, audio |-> a, logged |-> logged]

\* a plausible slip: the arrows are hidden at the wrong ends
updateNavigationArrowsSwapped(m) ==
  [m EXCEPT !.videoNavLeftHidden = m.currentVideoIndex = m.count - 1 \/ ~ (m.count > 1),
            !.videoNavRightHidden = m.currentVideoIndex = 0 \/ ~ (m.count > 1)]

\* MailSystem.updateNavigationArrows
updateNavigationArrows(m) ==
  LET isFirstVideo      == m.currentVideoIndex = 0
      isLastVideo       == m.currentVideoIndex = m.count - 1
      hasMultipleVideos == m.count > 1
  IN  [m EXCEPT !.videoNavLeftHidden = isFirstVideo \/ ~ hasMultipleVideos,
                !.videoNavRightHidden = isLastVideo \/ ~ hasMultipleVideos]

\* MailSystem.playVideo: an index out of range throws before anything is
\* written, and the catch logs it
playVideo(m, a, started, index) ==
  IF index < 0 \/ index >= m.count
  THEN MailOutcome(m, a, TRUE)
  ELSE LET m1 == [m EXCEPT !.currentVideoIndex = index,
                           !.viewedMessages = @ \cup {index},
                           !.videoModal = "flex",
                           !.onended = TRUE]
       IN  MailOutcome(updateNavigationArrows(m1),
                       IF started THEN setVolume(a, 0) ELSE a,
                       FALSE)

\* videoPlayer.onended as playVideo sets it
videoOnended(a, started) == IF started THEN setVolume(a, 10) ELSE a

\* MailSystem.closeVideo
closeVideo(m, a, started) ==
  MailOutcome([m EXCEPT !.videoModal = "none", !.onended = FALSE],
              IF started THEN setVolume(a, 10) ELSE a,
              FALSE)

\* MailSystem.navigateVideo
navigateVideo(m, a, started, direction) ==
  IF m.currentVideoIndex = -1
  THEN MailOutcome(m, a, FALSE)
  ELSE LET newIndex    == m.currentVideoIndex + direction
           targetIndex == IF newIndex < 0 THEN m.count - 1
                          ELSE IF newIndex >= m.count THEN 0
                          ELSE newIndex
       IN  playVideo(m, a, started, targetIndex)

\* MailSystem.openMailbox: the list is filled at once and the container is
\* shown by a frame callback
openMailbox(m) == [m EXCEPT !.shows = @ + 1]

\* the frame callback of openMailbox
showMailContainer(m) == [m EXCEPT !.mailContainer = "block", !.shows = @ - 1]

\* every outstanding frame callback of openMailbox fires
runShowCallbacks(m) ==
  IF m.shows = 0 THEN m ELSE [m EXCEPT !.mailContainer = "block", !.shows = 0]

\* MailSystem.closeMailbox
closeMailbox(m) == [m EXCEPT !.mailContainer = "none"]

\* MailSystem.markAllAsViewed
markAllAsViewed(m) == [m EXCEPT !.viewedMessages = 0..(m.count - 1)]

\* MailSystem.resetViewedMessages
resetViewedMessages(m) == [m EXCEPT !.viewedMessages = {}]

\* a plausible slip: Escape closes the video and the mail list at once
onEscapeClosingAll(m, a, started) ==
  IF m.videoModal = "flex"
  THEN LET r == closeVideo(m, a, started)
       IN  MailOutcome(closeMailbox(r.mail), r.audio, FALSE)
  ELSE IF m.mailContainer = "block"
  THEN MailOutcome(closeMailbox(m), a, FALSE)
  ELSE MailOutcome(m, a, FALSE)

\* the keydown listener of MailSystem for Escape: the video modal when it is
\* displayed, else the mail container when it is displayed
onEscape(m, a, started) ==
  IF m.videoModal = "flex"
  THEN closeVideo(m, a, started)
  ELSE IF m.mailContainer = "block"
  THEN MailOutcome(closeMailbox(m), a, FALSE)
  ELSE MailOutcome(m, a, FALSE)

----------------------------------------------------------------------------
(* EventEmitter: the listeners of one event *)

\* the callbacks to register: an ordinary one, one that throws, and the same
\* two registered with once()
ListenerKinds == {"on", "onThrows", "once", "onceThrows"}

\* an EventEmitter as constructed; listeners is events.get(event), empty when
\* the event has no entry; calls counts the invocations of each callback
NewEmitter == [listeners |-> <<>>, calls |-> <<>>, kinds |-> <<>>, emits |-> 0]

\* EventEmitter.on(event, callback), and once(), which registers a wrapper:
\* the callback gets the next identity
on(e, kind) ==
  LET id == Len(e.kinds) + 1
  IN  [e EXCEPT !.listeners = Append(@, id),
                !.kinds = Append(@, kind),
                !.calls = Append(@, 0)]

\* listeners.splice(index, 1)
splice(ls, index) ==
  [j \in 1..(Len(ls) - 1) |-> IF j < index THEN ls[j] ELSE ls[j + 1]]

RECURSIVE forEachListener(_, _, _, _)
\* listeners.forEach(callback => try { callback() } catch { handleError })
\* from index i on, over the array itself: len is its length when forEach
\* began, and an index past the present end is not visited. A once() wrapper
\* calls its callback and then off(), which splices the wrapper out of the
\* array; when the callback throws, off() is not reached
forEachListener(i, len, e, invoked) ==
  IF i > len \/ i > Len(e.listeners)
  THEN [emitter |-> e, invoked |-> invoked]
  ELSE LET id == e.listeners[i]
           e1 == [e EXCEPT !.calls[id] = @ + 1]
           e2 == IF e.kinds[id] = "once"
                 THEN [e1 EXCEPT !.listeners = splice(@, i)]
                 ELSE e1
       IN  forEachListener(i + 1, len, e2, Append(invoked, id))

\* EventEmitter.emit(event): false when the event has no entry
emit(e) ==
  IF e.listeners = <<>>
  THEN [emitter |-> e, invoked |-> <<>>, returned |-> FALSE]
  ELSE LET r == forEachListener(1, Len(e.listeners), e, <<>>)
       IN  [emitter |-> r.emitter, invoked |-> r.invoked, returned |-> TRUE]

----------------------------------------------------------------------------
(* AssetLoader.loadImage *)

\* two of CONFIG.ASSETS.IMAGES
ImageSrcs == {"BACKGROUND", "ME"}

\* an AssetLoader as constructed: the keys of loadedImages and of
\* loadingPromises, and for each src the Image objects that were given the
\* src and have fired neither onload nor onerror
NewLoader ==
  [loadedImages |-> {}, loadingPromises |-> {},
   inFlight |-> [s \in ImageSrcs |-> 0]]

\* AssetLoader.loadImage(src): the cached image, the load in progress, or a
\* new load
loadImage(l, src) ==
  IF src \in l.loadedImages
  THEN [loader |-> l, answer |-> "cached"]
  ELSE IF src \in l.loadingPromises
  THEN [loader |-> l, answer |-> "shared"]
  ELSE [loader |-> [l EXCEPT !.loadingPromises = @ \cup {src},
                             !.inFlight[src] = @ + 1],
        answer |-> "new"]

\* img.onload of a load of src
onload(l, src) ==
  [l EXCEPT !.loadedImages = @ \cup {src},
            !.loadingPromises = @ \ {src},
            !.inFlight[src] = @ - 1]

\* img.onerror of a load of src
onerror(l, src) ==
  [l EXCEPT !.loadingPromises = @ \ {src},
            !.inFlight[src] = @ - 1]

\* AssetLoader.clearCache: the maps are emptied; loads in progress go on
clearCache(l) == [l EXCEPT !.loadedImages = {}, !.loadingPromises = {}]

\* AssetLoader.getLoadingStats().currentlyLoading
currentlyLoading(l) == Cardinality(l.loadingPromises)

----------------------------------------------------------------------------
(* Game.updatePlayer *)

\* the player stays within MaxTravel moves of its initial position on each axis
MaxTravel == 50

Abs(n) == IF n < 0 THEN -n ELSE n

InTravel(p) ==
  /\ Abs(p.x - INITIAL_X) <= MaxTravel * SPEED
  /\ Abs(p.y - INITIAL_Y) <= MaxTravel * SPEED

\* Game.updatePlayer on the sampled input m: the new player, the flag
\* Player.move returned and the call made
updatePlayer(p, mv, c, m) ==
  IF m.dx # 0 \/ m.dy # 0
  THEN LET speed == p.speed
           dx    == m.dx * speed
           dy    == m.dy * speed
           r     == move(p, dx, dy, COLLISION_BOXES)
       IN  [player |-> IF m.direction # "null"
                       THEN setDirection(r.player, m.direction)
                       ELSE r.player,
            moved  |-> r.moved,
            call   |-> [op |-> "move", argX |-> dx, argY |-> dy, boxes |-> "config"]]
  ELSE [player |-> p, moved |-> mv, call |-> c]

\* Game.bumpCooldown, in milliseconds
bumpCooldown == 150

\* a plausible slip: the cooldown is not tested
playBumpSoundUndebounced(last, dateNow) ==
  [lastBumpTime |-> dateNow, bumped |-> TRUE]

\* Game.playBumpSound at Date.now() = dateNow, with lastBumpTime = last: the
\* new lastBumpTime, and whether AudioManager.playBumpSound was called
playBumpSound(last, dateNow) ==
  IF dateNow - last < bumpCooldown
  THEN [lastBumpTime |-> last, bumped |-> FALSE]
  ELSE [lastBumpTime |-> dateNow, bumped |-> TRUE]

\* the end of Game.updatePlayer on the input m: the bump sound of an attempt
\* that Player.move refused, once the music has started
bumpOnCollision(m, movedNow, started, last, dateNow) ==
  IF (m.dx # 0 \/ m.dy # 0) /\ ~ movedNow /\ started
  THEN playBumpSound(last, dateNow)
  ELSE [lastBumpTime |-> last, bumped |-> FALSE]

\* one frame's player update, for any keys held
UpdatePlayerFrame ==
  /\ InTravel(player)
  /\ \E m \in MovementInputs :
       LET u == updatePlayer(player, moved, call, m)
       IN  /\ movement' = m
           /\ player' = u.player
           /\ moved' = u.moved
           /\ call' = u.call
           /\ lastBumpTime' =
                bumpOnCollision(m, u.moved, musicStarted, lastBumpTime, now).lastBumpTime
  /\ UNCHANGED <<loopVars, entVars, queryVars, dogVars,
                 keys, musicStarted, musicRequested, ui, opens, log, extVars>>

----------------------------------------------------------------------------
(* The game after construction, driven by per-frame movement attempts *)

InitPlayerVars ==
  /\ player = NewPlayer
  /\ movement = [dx |-> 0, dy |-> 0, direction |-> "null"]
  /\ moved = FALSE
  /\ call = NoCall

InitQueryVars ==
  /\ query = NoQuery
  /\ result = NoResult

InitLoopVars ==
  /\ isRunning = FALSE
  /\ lastFrameTime = 0
  /\ pending = 0
  /\ now = 0
  /\ frameRuns = 0
  /\ lifecycle = [op |-> "none", wasRunning |-> FALSE]
  /\ history = [started |-> FALSE, destroyed |-> FALSE]

\* no frame has executed yet
NoFrame ==
  [order |-> <<>>, ticked |-> <<>>, caught |-> FALSE, renderCaught |-> FALSE,
   bumped |-> FALSE]

\* no call has been made on a dog yet
NoTick ==
  [op |-> "none", other |-> Missing, inside |-> FALSE,
   hadPrevious |-> FALSE, wasInside |-> FALSE,
   event |-> "none", priorEvent |-> "none",
   before |-> Dog("Roti", ROTI), effects |-> {}, thrown |-> FALSE]

\* the audio elements of the page: bgMusic.volume, and whether happybday plays
NewAudio == [bgVolume |-> DEFAULT_VOLUME, happybday |-> "paused"]

InitDogVars ==
  /\ dogs = <<>>
  /\ audio = NewAudio
  /\ frame = NoFrame
  /\ tickLog = NoTick

\* the messages of each dog in Game.dogDialogs
dogDialogs == [Roti |-> 4, Khushi |-> 4, Me |-> 4]

\* the page as loaded: dialog and prompts hidden, and
\* Game.dogMessageIndex as constructed
NewUI ==
  [dialog |-> FALSE, dialogName |-> "none", dialogMessage |-> 0,
   talkPrompt |-> "none", prompt |-> FALSE,
   dogMessageIndex |-> [Roti |-> 0, Khushi |-> 0, Me |-> 0]]

\* no handler has run yet
NoLog == [op |-> "none"]

InitExtVars ==
  /\ mail = MailSystem(MAIL_DATA_LENGTH)
  /\ emitter = NewEmitter
  /\ loader = NewLoader

InitUiVars ==
  /\ keys = {}
  /\ musicStarted = FALSE
  /\ musicRequested = FALSE
  /\ lastBumpTime = 0
  /\ ui = NewUI
  /\ opens = [Roti |-> 0, Khushi |-> 0, Me |-> 0]
  /\ log = NoLog
  /\ InitExtVars

InitGame ==
  /\ InitPlayerVars
  /\ ent = NewMailbox
  /\ InitQueryVars
  /\ InitLoopVars
  /\ InitDogVars
  /\ InitUiVars

NextMove == UpdatePlayerFrame

SpecMove == InitGame /\ [][NextMove]_vars

----------------------------------------------------------------------------
(* Game.update / updateDogs / updateUI / render / gameLoop *)

AudioKeys == {"barkRoti", "barkKhushi", "happybday"}

\* what can throw in a frame: play() of an audio element, the canvas the
\* prompts are positioned on, the renderer's draw calls
FailureSources == AudioKeys \cup {"canvas", "renderer"}

\* the frames tried: nothing throws, one source throws, every source throws
Failures == {{}} \cup {{k} : k \in FailureSources} \cup {FailureSources}

\* the audio element a dog plays when the player comes near
audioKey(name) ==
  IF name = "Roti" THEN "barkRoti"
  ELSE IF name = "Khushi" THEN "barkKhushi"
  ELSE "happybday"

\* Game.createEntities: the three dogs; the bark elements are on the page
createEntities ==
  << setAudio(Dog("Roti", ROTI), TRUE),
     setAudio(Dog("Khushi", KHUSHI), TRUE),
     Dog("Me", ME) >>

RECURSIVE forEachDog(_, _, _)
\* this.dogs.forEach(dog => dog.update(...)) from index i on; forEach ends
\* where a callback throws. host.failing holds the elements whose play() throws
forEachDog(i, g, host) ==
  IF i > Len(g.dogs)
  THEN g
  ELSE LET dog == g.dogs[i]
           h   == [now |-> host.now, playThrows |-> audioKey(dog.name) \in host.failing]
           r   == IF dog.name = "Me"
                  THEN dogUpdate(dog, Given(g.player), TRUE, TRUE, g.audio, h)
                  ELSE dogUpdate(dog, Given(g.player), FALSE, FALSE, g.audio, h)
           g1  == [g EXCEPT !.dogs[i] = r.dog,
                            !.audio = r.audio,
                            !.frame.ticked = Append(@, dog.name)]
       IN  IF r.thrown
           THEN [g1 EXCEPT !.thrown = TRUE]
           ELSE forEachDog(i + 1, g1, host)

updateDogs(g, host) == forEachDog(1, g, host)

RECURSIVE find(_, _, _)
\* this.dogs.find(dog => dog.isPlayerInRange(this.player)), by name
find(i, ds, p) ==
  IF i > Len(ds) THEN "none"
  ELSE IF isPlayerInRange(ds[i], Given(p)) THEN ds[i].name
  ELSE find(i + 1, ds, p)

getNearbyDog(g) == find(1, g.dogs, g.player)

\* a plausible slip: one position is kept for all the dogs
openDialogAdvancingAll(u, name) ==
  [u EXCEPT !.dialog = TRUE,
            !.dialogName = name,
            !.dialogMessage = u.dogMessageIndex[name],
            !.dogMessageIndex = [n \in DOMAIN @ |-> (@[n] + 1) % dogDialogs[n]]]

\* Game.openDialog(dog), by name: the dialog shows the dog's current message
\* and the dog's index moves on (the bark of Roti and Khushi is played on the
\* page and leaves nothing in the game)
openDialog(u, name) ==
  [u EXCEPT !.dialog = TRUE,
            !.dialogName = name,
            !.dialogMessage = u.dogMessageIndex[name],
            !.dogMessageIndex[name] = (@ + 1) % dogDialogs[name]]

\* Game.closeDialog
closeDialog(u) == [u EXCEPT !.dialog = FALSE]

\* a plausible slip: the dialog is left open when no dog is near
updateUIKeepingDialog(g, host) ==
  LET nearbyDog == getNearbyDog(g)
      throws    == "canvas" \in host.failing
  IN  IF nearbyDog # "none"
      THEN LET g1 == [g EXCEPT !.ui.talkPrompt = nearbyDog]
           IN  IF throws
               THEN [g1 EXCEPT !.thrown = TRUE]
               ELSE [g1 EXCEPT !.ui.prompt = FALSE]
      ELSE LET g1 == [g EXCEPT !.ui.talkPrompt = "none"]
           IN  IF isPlayerNearby(NewMailbox, Given(g.player))
               THEN [g1 EXCEPT !.ui.prompt = TRUE, !.thrown = throws]
               ELSE [g1 EXCEPT !.ui.prompt = FALSE]

\* Game.updateUI: the talk prompt of a nearby dog; else the dialog is closed,
\* the talk prompt hidden and the mailbox prompt shown near the mailbox.
\* Positioning a prompt on the canvas can throw, after the prompt is shown
updateUI(g, host) ==
  LET nearbyDog == getNearbyDog(g)
      throws    == "canvas" \in host.failing
  IN  IF nearbyDog # "none"
      THEN LET g1 == [g EXCEPT !.ui.talkPrompt = nearbyDog]
           IN  IF throws
               THEN [g1 EXCEPT !.thrown = TRUE]
               ELSE [g1 EXCEPT !.ui.prompt = FALSE]
      ELSE LET g1 == [g EXCEPT !.ui = [closeDialog(@) EXCEPT !.talkPrompt = "none"]]
           IN  IF isPlayerNearby(NewMailbox, Given(g.player))
               THEN [g1 EXCEPT !.ui.prompt = TRUE, !.thrown = throws]
               ELSE [g1 EXCEPT !.ui.prompt = FALSE]

\* the player step of Game.update, on the input g.input the frame samples
updatePlayerStep(g, host) ==
  LET u == updatePlayer(g.player, g.moved, g.call, g.input)
      b == bumpOnCollision(g.input, u.moved, g.musicStarted, g.lastBumpTime, host.now)
  IN  [g EXCEPT !.player = u.player,
                !.moved = u.moved,
                !.call = u.call,
                !.movement = g.input,
                !.lastBumpTime = b.lastBumpTime,
                !.frame.bumped = b.bumped,
                !.frame.order = Append(@, "updatePlayer")]

\* what Game.update does once a step has thrown or all have returned
catch(g) ==
  IF g.thrown
  THEN [g EXCEPT !.thrown = FALSE,
                 !.frame.caught = TRUE,
                 !.frame.order = Append(@, "catch")]
  ELSE g

\* Game.update: try { updatePlayer(); updateDogs(); updateUI() } catch
update(g, host) ==
  LET g1 == updatePlayerStep(g, host)
      g2 == updateDogs([g1 EXCEPT !.frame.order = Append(@, "updateDogs")], host)
  IN  IF g2.thrown
      THEN catch(g2)
      ELSE catch(updateUI([g2 EXCEPT !.frame.order = Append(@, "updateUI")], host))

\* Game.render: the draw calls in a try block of their own
render(g, host) ==
  [g EXCEPT !.frame.order = Append(@, "render"),
            !.frame.renderCaught = "renderer" \in host.failing]

\* a plausible slip: an error caught in update or render ends the callback
runFrameUncaught(g, currentTime) ==
  LET host == [now |-> currentTime, failing |-> g.failing]
      g1   == update([g EXCEPT !.frame = NoFrame], host)
      g2   == IF g1.frame.caught THEN g1 ELSE render(g1, host)
  IN  IF g2.frame.caught \/ g2.frame.renderCaught
      THEN [g2 EXCEPT !.runs = @ + 1]
      ELSE [g2 EXCEPT !.frame.order = @ \o <<"lastFrameTime", "requestAnimationFrame">>,
                      !.runs = @ + 1,
                      !.lastFrameTime = currentTime,
                      !.requested = @ + 1]

\* the body of Game.gameLoop: update, render, lastFrameTime, next frame request;
\* g.requested counts the frame callbacks asked for and g.runs the executions
runFrame(g, currentTime) ==
  LET host == [now |-> currentTime, failing |-> g.failing]
      g1   == render(update([g EXCEPT !.frame = NoFrame], host), host)
  IN  [g1 EXCEPT !.frame.order = @ \o <<"lastFrameTime", "requestAnimationFrame">>,
                 !.runs = @ + 1,
                 !.lastFrameTime = currentTime,
                 !.requested = @ + 1]

\* a plausible slip: the callback does not test isRunning
gameLoopUnguarded(g, currentTime) == runFrame(g, currentTime)

\* Game.gameLoop(currentTime) on the game g
gameLoop(g, currentTime) ==
  IF ~ g.isRunning THEN g ELSE runFrame(g, currentTime)

\* the game as a callback finds it; input is what the keyboard holds and
\* failing what throws in this frame
Game(input, failing) ==
  [isRunning |-> isRunning, lastFrameTime |-> lastFrameTime,
   player |-> player, moved |-> moved, call |-> call, movement |-> movement,
   dogs |-> dogs, audio |-> audio, frame |-> frame,
   musicStarted |-> musicStarted, lastBumpTime |-> lastBumpTime, ui |-> ui,
   mail |-> mail,
   input |-> input, failing |-> failing, thrown |-> FALSE,
   runs |-> 0, requested |-> 0]

----------------------------------------------------------------------------
(* Game: start / pause / resume / destroy, and the host's frame callbacks *)

\* the host clock stops at MaxTime; at most MaxPending callbacks are outstanding
MaxTime == 3
MaxPending == 3

\* the input a frame samples while no key is held
NoInput == getMovementInput({})

\* a plausible slip: start() without the isRunning guard
startUnguarded ==
  /\ pending < MaxPending
  /\ lifecycle' = [op |-> "start", wasRunning |-> isRunning]
  /\ history' = [history EXCEPT !.started = TRUE]
  /\ isRunning' = TRUE
  /\ lastFrameTime' = now
  /\ pending' = pending + 1
  /\ UNCHANGED <<now, frameRuns, playerVars, entVars, queryVars, dogVars, uiVars, extVars>>

start ==
  /\ isRunning \/ pending < MaxPending
  /\ lifecycle' = [op |-> "start", wasRunning |-> isRunning]
  /\ history' = [history EXCEPT !.started = TRUE]
  /\ IF isRunning
     THEN UNCHANGED <<isRunning, lastFrameTime, pending>>
     ELSE /\ isRunning' = TRUE
          /\ lastFrameTime' = now
          /\ pending' = pending + 1
  /\ UNCHANGED <<now, frameRuns, playerVars, entVars, queryVars, dogVars, uiVars, extVars>>

pause ==
  /\ lifecycle' = [op |-> "pause", wasRunning |-> isRunning]
  /\ isRunning' = FALSE
  /\ audio' = setVolume(audio, 3)
  /\ UNCHANGED <<lastFrameTime, pending, now, frameRuns, history, playerVars, entVars,
                 queryVars, dogs, frame, tickLog, uiVars, extVars>>

resume ==
  /\ isRunning \/ pending < MaxPending
  /\ lifecycle' = [op |-> "resume", wasRunning |-> isRunning]
  /\ IF ~ isRunning
     THEN /\ isRunning' = TRUE
          /\ audio' = setVolume(audio, 10)
          /\ pending' = pending + 1
     ELSE UNCHANGED <<isRunning, audio, pending>>
  /\ UNCHANGED <<lastFrameTime, now, frameRuns, history, playerVars, entVars, queryVars,
                 dogs, frame, tickLog, uiVars, extVars>>

\* Game.destroy; the visibilitychange listener that calls pause and resume
\* stays registered
destroy ==
  /\ lifecycle' = [op |-> "destroy", wasRunning |-> isRunning]
  /\ history' = [history EXCEPT !.destroyed = TRUE]
  /\ isRunning' = FALSE
  /\ UNCHANGED <<lastFrameTime, pending, now, frameRuns, playerVars, entVars, queryVars, dogVars, uiVars, extVars>>

RECURSIVE runCallbacks(_, _, _)
\* the host runs the n callbacks of one frame in turn, all with the same timestamp
runCallbacks(n, g, currentTime) ==
  IF n = 0 THEN g ELSE runCallbacks(n - 1, gameLoop(g, currentTime), currentTime)

\* a host frame: every outstanding callback fires; what they request is
\* outstanding for the next frame
hostFrame ==
  /\ pending > 0
  /\ \E g \in {runCallbacks(pending, Game(NoInput, {}), now)} :
         /\ lastFrameTime' = g.lastFrameTime
         /\ pending' = g.requested
         /\ frameRuns' = g.runs
         /\ player' = g.player
         /\ moved' = g.moved
         /\ call' = g.call
         /\ movement' = g.movement
         /\ dogs' = g.dogs
         /\ audio' = g.audio
         /\ frame' = g.frame
         /\ lastBumpTime' = g.lastBumpTime
         /\ ui' = g.ui
  /\ UNCHANGED <<isRunning, now, lifecycle, history, tickLog, entVars, queryVars,
                 keys, musicStarted, musicRequested, opens, log, extVars>>

\* time passes on the host
tick ==
  /\ now < MaxTime
  /\ now' = now + 1
  /\ UNCHANGED <<isRunning, lastFrameTime, pending, frameRuns, lifecycle, history, playerVars, entVars, queryVars, dogVars, uiVars, extVars>>

NextLoop == start \/ pause \/ resume \/ destroy \/ hostFrame \/ tick

SpecLoop == InitGame /\ [][NextLoop]_vars

----------------------------------------------------------------------------
(* GameObject operations on an entity of any size *)

\* sizes of the entities the game constructs: player, Roti, Khushi, mailbox
EntitySizes == {<<16, 32>>, <<54, 96>>, <<70, 74>>, <<50, 50>>}

\* coordinates handed to the constructor and to setPosition
XInputs == {-5, 0, 300, CANVAS_WIDTH - 16, CANVAS_WIDTH, CANVAS_WIDTH + 7}
YInputs == {-5, 0, 300, CANVAS_HEIGHT - 32, CANVAS_HEIGHT, CANVAS_HEIGHT + 7}

\* offsets handed to moveBy
Offsets == {-400, 0, 400}

InitEntity ==
  /\ InitPlayerVars
  /\ \E x \in XInputs, y \in YInputs, sz \in EntitySizes :
       ent = GameObject(x, y, sz[1], sz[2])
  /\ InitQueryVars
  /\ InitLoopVars
  /\ InitDogVars
  /\ InitUiVars

entSetPosition ==
  /\ \E x \in XInputs, y \in YInputs :
       /\ ent' = setPosition(ent, x, y)
       /\ call' = [op |-> "setPosition", argX |-> x, argY |-> y, boxes |-> "none"]
  /\ UNCHANGED <<player, movement, moved, queryVars, loopVars, dogVars, uiVars, extVars>>

entMoveBy ==
  /\ \E dx \in Offsets, dy \in Offsets :
       /\ ent' = moveBy(ent, dx, dy)
       /\ call' = [op |-> "moveBy", argX |-> dx, argY |-> dy, boxes |-> "none"]
  /\ UNCHANGED <<player, movement, moved, queryVars, loopVars, dogVars, uiVars, extVars>>

NextEntity == entSetPosition \/ entMoveBy

SpecEntity == InitEntity /\ [][NextEntity]_vars

----------------------------------------------------------------------------
(* Player operations called directly, with the obstacle list as an argument *)

\* the top wall alone
TopWallOnly == << Rect(0, 0, 1094, 30) >>

BoxLists == [config |-> COLLISION_BOXES, topwall |-> TopWallOnly]

\* positions handed to Player.setPosition
PlayerAnchors == {<<500, 40>>, <<465, 210>>, <<11, 180>>}

\* displacements handed to Player.move
PlayerSteps == {<<0, -10>>, <<0, 10>>}

\* serialized states handed to Player.setState; a missing field reads as
\* 0 or "" (falsy), a missing lastPosition as hasLastPosition = FALSE
SerializedStates ==
  {[x |-> x, y |-> y, direction |-> d, speed |-> 0,
    hasLastPosition |-> h, lastPosition |-> [x |-> x, y |-> y]] :
     x \in {0, 500, 1090, -5}, y \in {0, 40, 1100}, d \in {"", "left"},
     h \in BOOLEAN}

reset(p) ==
  [p EXCEPT !.x = INITIAL_X,
            !.y = INITIAL_Y,
            !.direction = "down",
            !.lastPosition = [x |-> INITIAL_X, y |-> INITIAL_Y]]

setState(p, state) ==
  LET x == IF state.x # 0 THEN state.x ELSE p.x
      y == IF state.y # 0 THEN state.y ELSE p.y
  IN  [p EXCEPT !.x = x,
                !.y = y,
                !.direction = IF state.direction # "" THEN state.direction ELSE p.direction,
                !.speed = IF state.speed # 0 THEN state.speed ELSE p.speed,
                !.lastPosition = IF state.hasLastPosition THEN state.lastPosition
                                 ELSE [x |-> x, y |-> y]]

playerSetPosition ==
  /\ \E a \in PlayerAnchors :
       /\ player' = setPosition(player, a[1], a[2])
       /\ call' = [op |-> "setPosition", argX |-> a[1], argY |-> a[2], boxes |-> "none"]
  /\ UNCHANGED <<movement, moved, entVars, queryVars, loopVars, dogVars, uiVars, extVars>>

playerMove ==
  /\ \E d \in PlayerSteps, b \in DOMAIN BoxLists :
       LET r == move(player, d[1], d[2], BoxLists[b])
       IN  /\ player' = r.player
           /\ moved' = r.moved
           /\ call' = [op |-> "move", argX |-> d[1], argY |-> d[2], boxes |-> b]
  /\ UNCHANGED <<movement, entVars, queryVars, loopVars, dogVars, uiVars, extVars>>

playerReset ==
  /\ player' = reset(player)
  /\ call' = [op |-> "reset", argX |-> 0, argY |-> 0, boxes |-> "none"]
  /\ UNCHANGED <<movement, moved, entVars, queryVars, loopVars, dogVars, uiVars, extVars>>

playerSetState ==
  /\ \E st \in SerializedStates :
       /\ player' = setState(player, st)
       /\ call' = [op |-> "setState", argX |-> st.x, argY |-> st.y, boxes |-> "none"]
  /\ UNCHANGED <<movement, moved, entVars, queryVars, loopVars, dogVars, uiVars, extVars>>

NextPlayer == playerSetPosition \/ playerMove \/ playerReset \/ playerSetState

SpecPlayer == InitGame /\ [][NextPlayer]_vars

----------------------------------------------------------------------------
(* CollisionSystem *)

checkCollision(bounds, boxes) ==
  \E i \in 1..Len(boxes) : isColliding(bounds, boxes[i])

wouldCollide(fromX, fromY, toX, toY, width, height, collisionBoxes) ==
  LET targetBounds == Rect(toX, toY, width, height)
  IN  checkCollision(targetBounds, collisionBoxes)

\* a plausible slip: the two single-axis results are exchanged
getMovementResponseSwapped(entity, deltaX, deltaY, collisionBoxes) ==
  LET currentBounds == getBounds(entity)
      targetX == currentBounds.x + deltaX
      targetY == currentBounds.y + deltaY
      canMoveX == ~ wouldCollide(currentBounds.x, currentBounds.y,
                                 currentBounds.x, targetY,
                                 currentBounds.width, currentBounds.height, collisionBoxes)
      canMoveY == ~ wouldCollide(currentBounds.x, currentBounds.y,
                                 targetX, currentBounds.y,
                                 currentBounds.width, currentBounds.height, collisionBoxes)
  IN  IF ~ wouldCollide(currentBounds.x, currentBounds.y, targetX, targetY,
                        currentBounds.width, currentBounds.height, collisionBoxes)
      THEN [canMove |-> TRUE, adjustedX |-> targetX, adjustedY |-> targetY]
      ELSE [canMove |-> FALSE,
            adjustedX |-> IF canMoveX THEN targetX ELSE currentBounds.x,
            adjustedY |-> IF canMoveY THEN targetY ELSE currentBounds.y,
            canMoveX |-> canMoveX,
            canMoveY |-> canMoveY]

getMovementResponse(entity, deltaX, deltaY, collisionBoxes) ==
  LET currentBounds == getBounds(entity)
      targetX == currentBounds.x + deltaX
      targetY == currentBounds.y + deltaY
      collides == wouldCollide(currentBounds.x, currentBounds.y, targetX, targetY,
                               currentBounds.width, currentBounds.height, collisionBoxes)
      canMoveX == ~ wouldCollide(currentBounds.x, currentBounds.y,
                                 targetX, currentBounds.y,
                                 currentBounds.width, currentBounds.height, collisionBoxes)
      canMoveY == ~ wouldCollide(currentBounds.x, currentBounds.y,
                                 currentBounds.x, targetY,
                                 currentBounds.width, currentBounds.height, collisionBoxes)
  IN  IF ~ collides
      THEN [canMove |-> TRUE, adjustedX |-> targetX, adjustedY |-> targetY]
      ELSE [canMove |-> FALSE,
            adjustedX |-> IF canMoveX THEN targetX ELSE currentBounds.x,
            adjustedY |-> IF canMoveY THEN targetY ELSE currentBounds.y,
            canMoveX |-> canMoveX,
            canMoveY |-> canMoveY]

----------------------------------------------------------------------------
(* Geometry and collision queries on drawn arguments *)

\* small rectangles have their corner in 0..MaxCoord
MaxCoord == 4

\* the moving body of a small query
SmallBodies == {Rect(x, y, 2, 2) : x \in 0..MaxCoord, y \in 0..MaxCoord}

SmallBoxes == {Rect(x, y, w, h) : x \in 0..MaxCoord, y \in 0..MaxCoord,
                                  w \in 1..2, h \in 1..2}

\* the box reflected in the diagonal x = y
Mirror(b) == Rect(b.y, b.x, b.height, b.width)

\* obstacle lists of a small query: none, one box, a box and its reflection
SmallBoxLists ==
  {<<>>} \cup {<<b>> : b \in SmallBoxes} \cup {<<b, Mirror(b)>> : b \in SmallBoxes}

SmallQueries ==
  {[rect |-> r, dx |-> dx, dy |-> dy, boxes |-> bs] :
     r \in SmallBodies, dx \in {-1, 0, 1}, dy \in {-1, 0, 1}, bs \in SmallBoxLists}

\* player-sized targets at and next to the wall and world edges
PlayerQueries ==
  {[rect |-> Rect(x, y, PLAYER_WIDTH, PLAYER_HEIGHT), dx |-> 0, dy |-> dy, boxes |-> bs] :
     x \in {-1, 0, 500, CANVAS_WIDTH - PLAYER_WIDTH, CANVAS_WIDTH - PLAYER_WIDTH + 1},
     y \in {-1, 0, 29, 30, 40, CANVAS_HEIGHT - PLAYER_HEIGHT,
             CANVAS_HEIGHT - PLAYER_HEIGHT + 1},
     dy \in {-10, 0},
     bs \in {<<>>, TopWallOnly, COLLISION_BOXES}}

InitGeometry ==
  /\ InitPlayerVars
  /\ ent = NewMailbox
  /\ query \in SmallQueries \cup PlayerQueries
  /\ result = NoResult
  /\ InitLoopVars
  /\ InitDogVars
  /\ InitUiVars

\* ValidationUtils.isColliding(query.rect, first box)
askIsColliding ==
  /\ Len(query.boxes) >= 1
  /\ result' = [fn |-> "isColliding", val |-> isColliding(query.rect, query.boxes[1])]
  /\ UNCHANGED <<query, playerVars, entVars, loopVars, dogVars, uiVars, extVars>>

\* Player.canMoveTo(query.rect.x, query.rect.y, query.boxes)
askCanMoveTo ==
  /\ query.rect.width = player.width
  /\ query.rect.height = player.height
  /\ result' = [fn |-> "canMoveTo",
                val |-> canMoveTo(player, query.rect.x, query.rect.y, query.boxes)]
  /\ UNCHANGED <<query, playerVars, entVars, loopVars, dogVars, uiVars, extVars>>

\* CollisionSystem.getMovementResponse(entity at query.rect, dx, dy, query.boxes)
askMovementResponse ==
  /\ result' = [fn |-> "getMovementResponse",
                val |-> getMovementResponse(query.rect, query.dx, query.dy, query.boxes)]
  /\ UNCHANGED <<query, playerVars, entVars, loopVars, dogVars, uiVars, extVars>>

NextGeometry == askIsColliding \/ askCanMoveTo \/ askMovementResponse

SpecGeometry == InitGeometry /\ [][NextGeometry]_vars

----------------------------------------------------------------------------
(* A dog on its own: update(player), reset(), and the end of Me's song *)

\* centre distances to try, for a radius of INTERACTION_DISTANCE
ProbeOffsets == {80, 90, 100, 110}

\* a player whose centre is level with the dog's and reach pixels to its left,
\* where reach is k for an ordinary dog and k larger by the longer radius for Me
probeAt(d, k) ==
  LET c     == getCenter(d, 2)
      reach == threshold(d) - INTERACTION_DISTANCE + k
  IN  Given([x |-> (c.x \div 4) - reach - PLAYER_WIDTH \div 2,
             y |-> (c.y \div 4) - PLAYER_HEIGHT \div 2,
             width |-> PLAYER_WIDTH,
             height |-> PLAYER_HEIGHT])

Probes(d) == {probeAt(d, k) : k \in ProbeOffsets}

InvalidPlayers == {NotNumeric, Missing}

\* the dogs of the game, and a dog whose bark element is missing from the page
LoneDogs ==
  {createEntities[i] : i \in 1..Len(createEntities)} \cup {Dog("Khushi", KHUSHI)}

InitDog ==
  /\ InitPlayerVars
  /\ ent = NewMailbox
  /\ InitQueryVars
  /\ InitLoopVars
  /\ dogs \in {<<d>> : d \in LoneDogs}
  /\ audio = NewAudio
  /\ frame = NoFrame
  /\ tickLog = NoTick
  /\ InitUiVars

\* dog.update(other, ...) with the audio arguments Game.updateDogs passes.
\* The log keeps on which side of the radius this tick and the one before
\* were, and whether this tick acted on entering or on leaving (event) and
\* which of the two the last acting tick before it did (priorEvent)
dogUpdateWith(others) ==
  /\ \E other \in others, playThrows \in BOOLEAN :
       LET d      == dogs[1]
           isMe   == d.name = "Me"
           inside == lessThan(distanceTo(d, 2, other), threshold(d))
       IN  \E r \in {dogUpdate(d, other, isMe, isMe, audio,
                                [now |-> now, playThrows |-> playThrows])} :
             /\ dogs' = <<r.dog>>
             /\ audio' = r.audio
             /\ tickLog' = [op |-> "update",
                            other |-> other,
                            inside |-> inside,
                            hadPrevious |-> tickLog.op = "update",
                            wasInside |-> tickLog.op = "update" /\ tickLog.inside,
                            event |-> IF r.dog = d /\ r.effects = {} THEN "none"
                                      ELSE IF inside THEN "enter" ELSE "exit",
                            priorEvent |-> IF tickLog.event # "none"
                                           THEN tickLog.event
                                           ELSE tickLog.priorEvent,
                            before |-> d,
                            effects |-> r.effects,
                            thrown |-> r.thrown]
  /\ UNCHANGED <<playerVars, entVars, queryVars, loopVars, frame, uiVars, extVars>>

dogUpdateCall == dogUpdateWith(Probes(dogs[1]))

dogUpdateInvalidCall == dogUpdateWith(InvalidPlayers)

dogResetCall ==
  /\ dogs' = <<dogReset(dogs[1], now)>>
  /\ tickLog' = [NoTick EXCEPT !.op = "reset", !.before = dogs[1]]
  /\ UNCHANGED <<audio, playerVars, entVars, queryVars, loopVars, frame, uiVars, extVars>>

\* Me's song plays to its end
songEnds ==
  /\ dogs[1].name = "Me"
  /\ audio.happybday = "playing"
  /\ audio' = onended(dogs[1], TRUE, audio)
  /\ UNCHANGED <<dogs, tickLog, playerVars, entVars, queryVars, loopVars, frame, uiVars, extVars>>

NextDog == dogUpdateCall \/ dogResetCall \/ songEnds \/ tick

SpecDog == InitDog /\ [][NextDog]_vars

\* ticks only, each with a valid player
NextDogTicks == dogUpdateCall \/ songEnds \/ tick

SpecDogTicks == InitDog /\ [][NextDogTicks]_vars

\* ticks with any argument
NextDogFaulty == dogUpdateCall \/ dogUpdateInvalidCall \/ songEnds \/ tick

SpecDogFaulty == InitDog /\ [][NextDogFaulty]_vars

----------------------------------------------------------------------------
(* The running game near a dog: one frame callback after another *)

\* the host fires at most MaxFrames frame callbacks
MaxFrames == 4

\* positions the player walks to from the start, each two pixels outside the
\* radius of Roti, of Khushi and of Me
FrameAnchors == {<<355, 336>>, <<269, 226>>, <<753, 486>>}

InitFrame ==
  /\ \E a \in FrameAnchors :
       player = [NewPlayer EXCEPT !.x = a[1], !.y = a[2],
                                  !.lastPosition = [x |-> a[1], y |-> a[2]]]
  /\ movement = NoInput
  /\ moved = FALSE
  /\ call = NoCall
  /\ ent = NewMailbox
  /\ InitQueryVars
  /\ isRunning = TRUE
  /\ lastFrameTime = 0
  /\ pending = 1
  /\ now = 0
  /\ frameRuns = 0
  /\ lifecycle = [op |-> "start", wasRunning |-> FALSE]
  /\ history = [started |-> TRUE, destroyed |-> FALSE]
  /\ dogs = createEntities
  /\ audio = NewAudio
  /\ frame = NoFrame
  /\ tickLog = NoTick
  /\ InitUiVars

\* the host fires the frame callback, with one of the given inputs sampled
\* and one of the given sets of sources throwing
frameStep(inputs, failures) ==
  /\ pending > 0
  /\ now < MaxFrames
  /\ \E m \in inputs, failing \in failures :
       \E g \in {gameLoop(Game(m, failing), now + 1)} :
           /\ now' = now + 1
           /\ lastFrameTime' = g.lastFrameTime
           /\ pending' = pending - 1 + g.requested
           /\ frameRuns' = g.runs
           /\ player' = g.player
           /\ moved' = g.moved
           /\ call' = g.call
           /\ movement' = g.movement
           /\ dogs' = g.dogs
           /\ audio' = g.audio
           /\ frame' = g.frame
           /\ lastBumpTime' = g.lastBumpTime
           /\ ui' = g.ui
  /\ UNCHANGED <<isRunning, lifecycle, history, tickLog, entVars, queryVars,
                 keys, musicStarted, musicRequested, opens, log, extVars>>

\* a frame with any keys held and any of the failures
frameCallback == frameStep(MovementInputs, Failures)

\* a frame of a player who stands still or walks down and to the right
DownRightInputs ==
  {getMovementInput({}), getMovementInput({"ArrowDown"}),
   getMovementInput({"ArrowRight", "ArrowDown"})}

frameCallbackDownRight == frameStep(DownRightInputs, Failures)

NextFrame == frameCallback

SpecFrame == InitFrame /\ [][NextFrame]_vars

\* a callback is outstanding and the host fires it; every such step of the
\* game is a frame callback, and a frame callback can run whenever one is
\* outstanding
hostFires == pending > 0 /\ now < MaxFrames /\ now' = now + 1

\* the host fires every frame callback that was requested
SpecFrameFair ==
  InitFrame /\ [][frameCallbackDownRight]_vars /\ WF_now(hostFires)

----------------------------------------------------------------------------
(* The running game driven from the keyboard *)

\* AudioManager.tryStartAudio: bgMusic.play() is called unless the music has
\* started; whether a play() promise is outstanding afterwards
tryStartAudio(started, requested) == IF started THEN requested ELSE TRUE

\* a plausible slip: the mailbox is opened wherever the player stands
onInteractAnywhere(g) ==
  [ui |-> g.ui, mail |-> openMailbox(g.mail), opened |-> "mailbox"]

\* the listener Game registers for 'interact': the dialog of a nearby dog
\* first, else the mailbox when the player is near it
onInteract(g) ==
  LET nearbyDog == getNearbyDog(g)
  IN  IF nearbyDog # "none"
      THEN [ui |-> openDialog(g.ui, nearbyDog), mail |-> g.mail, opened |-> nearbyDog]
      ELSE IF isPlayerNearby(NewMailbox, Given(g.player))
      THEN [ui |-> g.ui, mail |-> openMailbox(g.mail), opened |-> "mailbox"]
      ELSE [ui |-> g.ui, mail |-> g.mail, opened |-> "nothing"]

\* at most MaxOpens dialogs are opened with one dog
MaxOpens == 5

\* at most MaxShows frame callbacks of openMailbox are outstanding
MaxShows == 2

\* the log says that closeMailbox has run and openMailbox has not since
WasClosed == "closed" \in DOMAIN log /\ log.closed

\* InputManager.handleSpecificKeys: the event emitted for the key
handleSpecificKeys(key) ==
  IF key \in {"e", "E"} THEN <<"interact">>
  ELSE IF key = "F3" THEN <<"toggleDebug">>
  ELSE IF key = ";" THEN <<"toggleCollisions">>
  ELSE IF key = "Escape" THEN <<"closeModals">>
  ELSE <<>>

\* a plausible slip: a keydown of a held key is handled like the first
keyDownEmitsOnRepeat(key, pressed) ==
  <<"keydown">> \o handleSpecificKeys(key) \o <<"audioRequested">>

\* the events InputManager.handleKeyDown emits for a keydown of key while
\* pressed are held: none when the key is held already
keyDownEmits(key, pressed) ==
  IF key \in pressed
  THEN <<>>
  ELSE <<"keydown">> \o handleSpecificKeys(key) \o <<"audioRequested">>

\* the document's keydown event for a key of ks, held or not. In
\* InputManager.handleKeyDown the key is recorded and the listeners of the
\* emitted events run: interact, closeModals (Game.closeDialog) and
\* audioRequested; the keydown listener of MailSystem acts on Escape
handleKeyDown(ks) ==
  /\ \E k \in ks :
       LET emitted == keyDownEmits(k, keys)
           has(ev) == \E i \in 1..Len(emitted) : emitted[i] = ev
           esc     == IF k = "Escape"
                      THEN onEscape(mail, audio, musicStarted)
                      ELSE MailOutcome(mail, audio, FALSE)
       IN  /\ keys' = keys \cup {k}
           /\ musicRequested' = IF has("audioRequested")
                                THEN tryStartAudio(musicStarted, musicRequested)
                                ELSE musicRequested
           /\ audio' = esc.audio
           /\ IF has("interact")
              THEN \E r \in {onInteract(Game(NoInput, {}))} :
                     /\ r.opened \in DOMAIN opens => opens[r.opened] < MaxOpens
                     /\ r.opened = "mailbox" => mail.shows < MaxShows
                     /\ ui' = r.ui
                     /\ mail' = r.mail
                     /\ opens' = IF r.opened \in DOMAIN opens
                                 THEN [opens EXCEPT ![r.opened] = @ + 1]
                                 ELSE opens
                     /\ log' = [op |-> "interact", key |-> k, repeat |-> FALSE,
                                emitted |-> emitted, opened |-> r.opened,
                                shown |-> r.ui.dialogMessage,
                                closed |-> r.opened # "mailbox" /\ WasClosed]
              ELSE /\ ui' = IF has("closeModals") THEN closeDialog(ui) ELSE ui
                   /\ mail' = esc.mail
                   /\ opens' = opens
                   /\ log' = [op |-> "keydown", key |-> k, repeat |-> k \in keys,
                              emitted |-> emitted, before |-> mail,
                              closed |-> \/ WasClosed
                                         \/ /\ mail.mailContainer = "block"
                                            /\ esc.mail.mailContainer = "none"]
  /\ UNCHANGED <<musicStarted, lastBumpTime, playerVars, entVars, queryVars,
                 loopVars, dogs, frame, tickLog, emitter, loader>>

\* InputManager.handleKeyUp for a key of ks that is held
handleKeyUp(ks) ==
  /\ \E k \in ks \cap keys :
       /\ keys' = keys \ {k}
       /\ log' = [op |-> "keyup", key |-> k, closed |-> WasClosed]
  /\ UNCHANGED <<musicStarted, musicRequested, lastBumpTime, ui, opens,
                 playerVars, entVars, queryVars, loopVars, dogVars, extVars>>

\* the promise of bgMusic.play() resolves
musicPlays ==
  /\ musicRequested
  /\ musicStarted' = TRUE
  /\ musicRequested' = FALSE
  /\ UNCHANGED <<keys, lastBumpTime, ui, opens, log,
                 playerVars, entVars, queryVars, loopVars, dogVars, extVars>>

\* the promise of bgMusic.play() is rejected
musicBlocked ==
  /\ musicRequested
  /\ musicRequested' = FALSE
  /\ UNCHANGED <<keys, musicStarted, lastBumpTime, ui, opens, log,
                 playerVars, entVars, queryVars, loopVars, dogVars, extVars>>

\* the host fires the frame callback gap after the last one, while the clock
\* is within limit: the frame samples the keys held, and the frame callbacks
\* of openMailbox requested since the last frame fire after it. The log keeps the
\* frame's deltaTime, the player, lastBumpTime and musicStarted it found, the displacement
\* it made, and the same of the frame before when no key event came between
playFrame(gaps, failures, limit) ==
  /\ pending > 0
  /\ \E gap \in gaps, failing \in failures :
       /\ now + gap <= limit
       /\ \E g \in {gameLoop(Game(getMovementInput(keys), failing), now + gap)} :
            /\ now' = now + gap
            /\ lastFrameTime' = g.lastFrameTime
            /\ pending' = pending - 1 + g.requested
            /\ frameRuns' = g.runs
            /\ player' = g.player
            /\ moved' = g.moved
            /\ call' = g.call
            /\ movement' = g.movement
            /\ dogs' = g.dogs
            /\ audio' = g.audio
            /\ frame' = g.frame
            /\ lastBumpTime' = g.lastBumpTime
            /\ ui' = g.ui
            /\ mail' = runShowCallbacks(mail)
            /\ log' = [op |-> "frame",
                       deltaTime |-> now + gap - lastFrameTime,
                       before |-> player,
                       lastBump |-> lastBumpTime,
                       started |-> musicStarted,
                       dialog |-> ui.dialog,
                       dx |-> g.player.x - player.x,
                       dy |-> g.player.y - player.y,
                       prev |-> IF log.op = "frame"
                                THEN <<[deltaTime |-> log.deltaTime,
                                        dx |-> log.dx, dy |-> log.dy]>>
                                ELSE <<>>]
  /\ UNCHANGED <<isRunning, lifecycle, history, tickLog, entVars, queryVars,
                 keys, musicStarted, musicRequested, opens, emitter, loader>>

\* the game after initialize(), started at time t with the player at one of
\* the anchors
InitRunningAt(anchors, t) ==
  /\ \E a \in anchors :
       player = [NewPlayer EXCEPT !.x = a[1], !.y = a[2],
                                  !.lastPosition = [x |-> a[1], y |-> a[2]]]
  /\ movement = NoInput
  /\ moved = FALSE
  /\ call = NoCall
  /\ ent = NewMailbox
  /\ InitQueryVars
  /\ isRunning = TRUE
  /\ lastFrameTime = t
  /\ pending = 1
  /\ now = t
  /\ frameRuns = 0
  /\ lifecycle = [op |-> "start", wasRunning |-> FALSE]
  /\ history = [started |-> TRUE, destroyed |-> FALSE]
  /\ dogs = createEntities
  /\ audio = NewAudio
  /\ frame = NoFrame
  /\ tickLog = NoTick
  /\ InitUiVars

----------------------------------------------------------------------------
(* The player at the wall below the top corridor, time in milliseconds *)

\* Date.now() and performance.now() when the game starts: later than a
\* cooldown after 0, the initial lastBumpTime
PageLoad == 2 * bumpCooldown

\* the game is followed for MaxElapsed milliseconds
MaxElapsed == 200

\* milliseconds between two frame callbacks
FrameGaps == {49, 50, 100}

\* at (465, 180) the player touches the wall {x: 0, y: 170, w: 1200, h: 10}
\* from below: up is blocked, right is free
WallAnchors == {<<465, 180>>}

WallKeys == {"ArrowUp", "ArrowRight"}

InitWall == InitRunningAt(WallAnchors, PageLoad)

wallKeyDown == handleKeyDown(WallKeys)

wallKeyUp == handleKeyUp(WallKeys)

wallFrame == playFrame(FrameGaps, {{}}, PageLoad + MaxElapsed)

\* player.setDirection(direction) with a direction or any other string
playerSetDirection ==
  /\ \E direction \in {"left", "north", ""} :
       /\ player' = setDirection(player, direction)
       /\ log' = [op |-> "setDirection", asked |-> direction, before |-> player]
  /\ UNCHANGED <<movement, moved, call, keys, musicStarted, musicRequested,
                 lastBumpTime, ui, opens, entVars, queryVars, loopVars, dogVars, extVars>>

NextWall ==
  wallKeyDown \/ wallKeyUp \/ musicPlays \/ musicBlocked \/ wallFrame
    \/ playerSetDirection

SpecWall == InitWall /\ [][NextWall]_vars

----------------------------------------------------------------------------
(* InputManager.getMovementInput on any keys held *)

\* the movement keys and the interact key
InputKeys == MoveKeys \cup {"e"}

InitInput ==
  /\ InitPlayerVars
  /\ ent = NewMailbox
  /\ InitQueryVars
  /\ InitLoopVars
  /\ InitDogVars
  /\ musicStarted = FALSE
  /\ musicRequested = FALSE
  /\ lastBumpTime = 0
  /\ ui = NewUI
  /\ opens = [Roti |-> 0, Khushi |-> 0, Me |-> 0]
  /\ log = NoLog
  /\ InitExtVars
  /\ keys \in SUBSET InputKeys

\* inputManager.getMovementInput()
askMovementInput ==
  /\ result' = [fn |-> "getMovementInput", val |-> getMovementInput(keys)]
  /\ UNCHANGED <<query, playerVars, entVars, loopVars, dogVars, uiVars, extVars>>

SpecInput == InitInput /\ [][askMovementInput]_vars

----------------------------------------------------------------------------
(* Movement and collision checks against a list with a malformed obstacle *)

\* an entry of the obstacle list that is undefined
Undefined == [undefined |-> TRUE]

IsUndefined(box) == "undefined" \in DOMAIN box

RECURSIVE someOrThrow(_, _, _)
\* boxes.some(box => isColliding(bounds, box)) from index i on: "true" at the
\* first colliding box; reading box.x of an undefined entry met before one
\* is a TypeError ("throws"); else "false"
someOrThrow(i, boxes, bounds) ==
  IF i > Len(boxes) THEN "false"
  ELSE IF IsUndefined(boxes[i]) THEN "throws"
  ELSE IF isColliding(bounds, boxes[i]) THEN "true"
  ELSE someOrThrow(i + 1, boxes, bounds)

\* Player.move on any list: the new player, the returned flag, whether the
\* call threw (out of canMoveTo and move, neither has a try block) and
\* whether anything was logged
moveOrThrow(p, dx, dy, collisionBoxes) ==
  LET p1   == [p EXCEPT !.lastPosition = [x |-> p.x, y |-> p.y]]
      newX == p.x + dx
      newY == p.y + dy
      hit  == IF newX < 0 \/ newY < 0 \/ newX + p.width > CANVAS_WIDTH
                 \/ newY + p.height > CANVAS_HEIGHT
              THEN "true"
              ELSE someOrThrow(1, collisionBoxes, Rect(newX, newY, p.width, p.height))
  IN  IF hit = "false"
      THEN [player |-> [p1 EXCEPT !.x = clamp(newX, 0, CANVAS_WIDTH - p.width),
                                  !.y = clamp(newY, 0, CANVAS_HEIGHT - p.height)],
            moved |-> TRUE, thrown |-> FALSE, logged |-> FALSE]
      ELSE [player |-> p1, moved |-> FALSE, thrown |-> hit = "throws",
            logged |-> FALSE]

\* CollisionSystem.checkCollision on any list: an error is caught, handed to
\* ErrorHandler.handleError and answered with false
checkCollisionOrCatch(bounds, boxes) ==
  LET hit == someOrThrow(1, boxes, bounds)
  IN  [val |-> hit = "true", error |-> hit = "throws", logged |-> hit = "throws"]

\* obstacles of negative or zero width or height lying across x = 10..60,
\* and the undefined entry
MalformedBoxes ==
  {Undefined, Rect(60, 40, -50, 100), Rect(30, 40, 0, 100),
   Rect(10, 140, 50, -100), Rect(10, 60, 50, 0)}

\* one obstacle in the way of a body at x = 20, one out of the way
WellFormedBoxes == {Rect(30, 40, 10, 100), Rect(300, 40, 10, 10)}

MalformedLists ==
  {<<m>> : m \in MalformedBoxes}
    \cup {<<m, w>> : m \in MalformedBoxes, w \in WellFormedBoxes}
    \cup {<<w, m>> : m \in MalformedBoxes, w \in WellFormedBoxes}

MalformedQueries ==
  {[rect |-> Rect(x, 50, PLAYER_WIDTH, PLAYER_HEIGHT), dx |-> dx, dy |-> dy, boxes |-> bs] :
     x \in {20, 200}, dx \in {-SPEED, 0, SPEED}, dy \in {-SPEED, 0, SPEED},
     bs \in MalformedLists}

InitMalformed ==
  /\ InitPlayerVars
  /\ ent = NewMailbox
  /\ query \in MalformedQueries
  /\ result = NoResult
  /\ InitLoopVars
  /\ InitDogVars
  /\ InitUiVars

\* player.move(query.dx, query.dy, query.boxes) with the player at query.rect
askMove ==
  /\ \E r \in {moveOrThrow([NewPlayer EXCEPT !.x = query.rect.x, !.y = query.rect.y],
                            query.dx, query.dy, query.boxes)} :
       result' = [fn |-> "move", moved |-> r.moved, thrown |-> r.thrown,
                  logged |-> r.logged, x |-> r.player.x, y |-> r.player.y]
  /\ UNCHANGED <<query, playerVars, entVars, loopVars, dogVars, uiVars, extVars>>

\* collisionSystem.checkCollision(target of the query, query.boxes)
askCheckCollision ==
  /\ \E r \in {checkCollisionOrCatch(Rect(query.rect.x + query.dx, query.rect.y + query.dy,
                                         query.rect.width, query.rect.height),
                                    query.boxes)} :
       result' = [fn |-> "checkCollision", val |-> r.val, error |-> r.error,
                  logged |-> r.logged]
  /\ UNCHANGED <<query, playerVars, entVars, loopVars, dogVars, uiVars, extVars>>

NextMalformed == askMove \/ askCheckCollision

SpecMalformed == InitMalformed /\ [][NextMalformed]_vars

----------------------------------------------------------------------------
(* Game.openDialog and closeDialog called directly *)

InitDialog == InitRunningAt({<<INITIAL_X, INITIAL_Y>>}, 0)

\* game.openDialog(dog) for any dog of the game
openDialogCall ==
  /\ \E i \in 1..Len(dogs) :
       LET name == dogs[i].name
       IN  /\ opens[name] < MaxOpens
           /\ ui' = openDialog(ui, name)
           /\ opens' = [opens EXCEPT ![name] = @ + 1]
           /\ log' = [op |-> "openDialog", dog |-> name, before |-> ui.dogMessageIndex]
  /\ UNCHANGED <<keys, musicStarted, musicRequested, lastBumpTime,
                 playerVars, entVars, queryVars, loopVars, dogVars, extVars>>

\* game.closeDialog()
closeDialogCall ==
  /\ ui' = closeDialog(ui)
  /\ log' = [op |-> "closeDialog", before |-> ui.dogMessageIndex]
  /\ UNCHANGED <<keys, musicStarted, musicRequested, lastBumpTime, opens,
                 playerVars, entVars, queryVars, loopVars, dogVars, extVars>>

NextDialog == openDialogCall \/ closeDialogCall

SpecDialog == InitDialog /\ [][NextDialog]_vars

----------------------------------------------------------------------------
(* The running game at the edge of a dog's range and of the mailbox's *)

\* the host fires at most MaxTalkFrames frame callbacks
MaxTalkFrames == 3

\* positions the player walks to from the start. One step down from
\* (355, 338) is within Roti's radius; one step down from (649, 316) is
\* within the mailbox's distance and near no dog; (761, 456) is within the
\* mailbox's distance and one step down from it is within Me's radius too
TalkAnchors == {<<355, 338>>, <<649, 316>>, <<761, 456>>}

TalkKeys == {"ArrowUp", "ArrowDown", "e"}

InitTalk == InitRunningAt(TalkAnchors, 0)

talkKeyDown == handleKeyDown(TalkKeys)

talkKeyUp == handleKeyUp(TalkKeys)

talkFrame == playFrame({1}, Failures, MaxTalkFrames)

NextTalk == talkKeyDown \/ talkKeyUp \/ talkFrame

SpecTalk == InitTalk /\ [][NextTalk]_vars

----------------------------------------------------------------------------
(* MailSystem called directly, with Escape and the host's frame callbacks *)

\* lengths of MAIL_DATA: one, two and three messages, and the configured list
MailCounts == {1, 2, 3, MAIL_DATA_LENGTH}

\* indexes to play: the two ends, their neighbours inside and outside
PlayIndexes(count) == {-1, 0, 1, count - 1, count}

\* the game as constructed, the music started or not, over any of the
\* lengths
InitMail ==
  /\ InitPlayerVars
  /\ ent = NewMailbox
  /\ InitQueryVars
  /\ InitLoopVars
  /\ InitDogVars
  /\ keys = {}
  /\ musicStarted \in BOOLEAN
  /\ musicRequested = FALSE
  /\ lastBumpTime = 0
  /\ ui = NewUI
  /\ opens = [Roti |-> 0, Khushi |-> 0, Me |-> 0]
  /\ log = NoLog
  /\ mail \in {MailSystem(n) : n \in MailCounts}
  /\ emitter = NewEmitter
  /\ loader = NewLoader

\* a method of MailSystem was called with arg and left r
mailCall(op, arg, r) ==
  /\ mail' = r.mail
  /\ audio' = r.audio
  /\ log' = [op |-> op, arg |-> arg, before |-> mail, logged |-> r.logged,
             closed |-> IF op = "closeMailbox" THEN TRUE
                        ELSE IF op = "openMailbox" THEN FALSE
                        ELSE WasClosed]
  /\ UNCHANGED <<keys, musicStarted, musicRequested, lastBumpTime, ui, opens,
                 dogs, frame, tickLog, emitter, loader,
                 playerVars, entVars, queryVars, loopVars>>

openMailboxCall ==
  /\ mail.shows < MaxShows
  /\ mailCall("openMailbox", 0, MailOutcome(openMailbox(mail), audio, FALSE))

\* the close button of the mail container
closeMailboxCall ==
  mailCall("closeMailbox", 0, MailOutcome(closeMailbox(mail), audio, FALSE))

\* the host fires a frame callback of openMailbox
showCallbackFires ==
  /\ mail.shows > 0
  /\ mailCall("show", 0, MailOutcome(showMailContainer(mail), audio, FALSE))

\* videos are played while at most MaxViewed messages are viewed, or all
MaxViewed == 2

ViewedWithin(r) ==
  \/ Cardinality(r.mail.viewedMessages) <= MaxViewed
  \/ r.mail.viewedMessages = mail.viewedMessages

\* a click on an item of the mail list, or any call of playVideo
playVideoCall ==
  \E index \in PlayIndexes(mail.count) :
    \E r \in {playVideo(mail, audio, musicStarted, index)} :
      /\ ViewedWithin(r)
      /\ mailCall("playVideo", index, r)

\* the arrows of the video modal
navigateVideoCall ==
  \E direction \in {-1, 1} :
    \E r \in {navigateVideo(mail, audio, musicStarted, direction)} :
      /\ ViewedWithin(r)
      /\ mailCall("navigateVideo", direction, r)

closeVideoCall == mailCall("closeVideo", 0, closeVideo(mail, audio, musicStarted))

markAllAsViewedCall ==
  mailCall("markAllAsViewed", 0, MailOutcome(markAllAsViewed(mail), audio, FALSE))

resetViewedMessagesCall ==
  mailCall("resetViewedMessages", 0,
           MailOutcome(resetViewedMessages(mail), audio, FALSE))

\* the video plays to its end
videoEnds ==
  /\ mail.videoModal = "flex"
  /\ mail.onended
  /\ mailCall("ended", 0, MailOutcome(mail, videoOnended(audio, musicStarted), FALSE))

escapeDown == handleKeyDown({"Escape"})

escapeUp == handleKeyUp({"Escape"})

NextMail ==
  \/ openMailboxCall
  \/ closeMailboxCall
  \/ showCallbackFires
  \/ playVideoCall
  \/ navigateVideoCall
  \/ closeVideoCall
  \/ markAllAsViewedCall
  \/ resetViewedMessagesCall
  \/ videoEnds
  \/ escapeDown
  \/ escapeUp

SpecMail == InitMail /\ [][NextMail]_vars

----------------------------------------------------------------------------
(* Me on its own, with Game.pause / resume and the video modal *)

InitVolume ==
  /\ InitPlayerVars
  /\ ent = NewMailbox
  /\ InitQueryVars
  /\ InitLoopVars
  /\ dogs = <<createEntities[3]>>
  /\ audio = NewAudio
  /\ frame = NoFrame
  /\ tickLog = NoTick
  /\ keys = {}
  /\ musicStarted \in BOOLEAN
  /\ musicRequested = FALSE
  /\ lastBumpTime = 0
  /\ ui = NewUI
  /\ opens = [Roti |-> 0, Khushi |-> 0, Me |-> 0]
  /\ log = NoLog
  /\ InitExtVars

NextVolume ==
  \/ dogUpdateCall
  \/ songEnds
  \/ pause
  \/ resume
  \/ playVideoCall
  \/ closeVideoCall
  \/ videoEnds

SpecVolume == InitVolume /\ [][NextVolume]_vars

----------------------------------------------------------------------------
(* EventEmitter: on, once and emit of one event *)

\* at most MaxListeners callbacks are registered and MaxEmits emits made
MaxListeners == 3
MaxEmits == 3

\* emitter.on(event, callback) or emitter.once(event, callback)
onCall ==
  /\ Len(emitter.kinds) < MaxListeners
  /\ \E kind \in ListenerKinds :
       /\ emitter' = on(emitter, kind)
       /\ log' = [op |-> IF kind \in {"once", "onceThrows"} THEN "once" ELSE "on",
                  before |-> emitter]
  /\ UNCHANGED <<keys, musicStarted, musicRequested, lastBumpTime, ui, opens,
                 mail, loader, playerVars, entVars, queryVars, loopVars, dogVars>>

\* emitter.emit(event)
emitCall ==
  /\ emitter.emits < MaxEmits
  /\ \E r \in {emit(emitter)} :
       /\ emitter' = [r.emitter EXCEPT !.emits = @ + 1]
       /\ log' = [op |-> "emit", before |-> emitter, invoked |-> r.invoked,
                  returned |-> r.returned]
  /\ UNCHANGED <<keys, musicStarted, musicRequested, lastBumpTime, ui, opens,
                 mail, loader, playerVars, entVars, queryVars, loopVars, dogVars>>

NextEmitter == onCall \/ emitCall

SpecEmitter == InitGame /\ [][NextEmitter]_vars

----------------------------------------------------------------------------
(* AssetLoader: loadImage, the end of a load, clearCache *)

\* at most MaxLoads loads of one src are in progress
MaxLoads == 2

\* assetLoader.loadImage(src)
loadImageCall ==
  /\ \E src \in ImageSrcs :
       \E r \in {loadImage(loader, src)} :
         /\ r.loader.inFlight[src] <= MaxLoads
         /\ loader' = r.loader
         /\ log' = [op |-> "loadImage", src |-> src, answer |-> r.answer,
                    before |-> loader]
  /\ UNCHANGED <<keys, musicStarted, musicRequested, lastBumpTime, ui, opens,
                 mail, emitter, playerVars, entVars, queryVars, loopVars, dogVars>>

\* a load in progress succeeds
loadSucceeds ==
  /\ \E src \in ImageSrcs :
       /\ loader.inFlight[src] > 0
       /\ loader' = onload(loader, src)
       /\ log' = [op |-> "onload", src |-> src, before |-> loader]
  /\ UNCHANGED <<keys, musicStarted, musicRequested, lastBumpTime, ui, opens,
                 mail, emitter, playerVars, entVars, queryVars, loopVars, dogVars>>

\* a load in progress fails
loadFails ==
  /\ \E src \in ImageSrcs :
       /\ loader.inFlight[src] > 0
       /\ loader' = onerror(loader, src)
       /\ log' = [op |-> "onerror", src |-> src, before |-> loader]
  /\ UNCHANGED <<keys, musicStarted, musicRequested, lastBumpTime, ui, opens,
                 mail, emitter, playerVars, entVars, queryVars, loopVars, dogVars>>

\* assetLoader.clearCache()
clearCacheCall ==
  /\ loader' = clearCache(loader)
  /\ log' = [op |-> "clearCache", before |-> loader]
  /\ UNCHANGED <<keys, musicStarted, musicRequested, lastBumpTime, ui, opens,
                 mail, emitter, playerVars, entVars, queryVars, loopVars, dogVars>>

NextLoader == loadImageCall \/ loadSucceeds \/ loadFails \/ clearCacheCall

SpecLoader == InitGame /\ [][NextLoader]_vars

----------------------------------------------------------------------------
(* InputManager: keydown, auto-repeat and keyup of the game keys *)

\* the keys with an event of their own, and a movement key
KeyboardKeys == {"e", "Escape", "F3", ";", "ArrowUp"}

InitKeys == InitRunningAt({<<INITIAL_X, INITIAL_Y>>}, 0)

anyKeyDown == handleKeyDown(KeyboardKeys)

anyKeyUp == handleKeyUp(KeyboardKeys)

NextKeys == anyKeyDown \/ anyKeyUp

SpecKeys == InitKeys /\ [][NextKeys]_vars

----------------------------------------------------------------------------
(* Claims *)

InsideWorld(r) ==
  /\ 0 <= r.x
  /\ 0 <= r.y
  /\ r.x + r.width <= CANVAS_WIDTH
  /\ r.y + r.height <= CANVAS_HEIGHT

\* C1: from the configured start, after any sequence of per-frame movement
\* attempts the player's rectangle overlaps no obstacle and lies inside the world.
PlayerNeverInObstacle ==
  /\ \A i \in 1..Len(COLLISION_BOXES) : ~ isColliding(getBounds(player), COLLISION_BOXES[i])
  /\ InsideWorld(getBounds(player))

\* C1 witness: a committed move that ends flush against an obstacle edge,
\* and a later attempt into that obstacle that was refused.
PlayerMovedToObstacleEdge ==
  /\ call.op = "move"
  /\ moved
  /\ player.y = 180
  /\ player.lastPosition.y = 182
  /\ movement.dy = -1

\* C3: a diagonal attempt whose full target and X-only target are refused while
\* the Y-only target is free commits the displacement (0, dy).
DiagonalSlidesWhenXBlocked ==
  LET from == player.lastPosition
  IN  ( /\ call.op = "move"
        /\ call.argX # 0
        /\ call.argY # 0
        /\ ~ canMoveTo(player, from.x + call.argX, from.y + call.argY, COLLISION_BOXES)
        /\ ~ canMoveTo(player, from.x + call.argX, from.y, COLLISION_BOXES)
        /\ canMoveTo(player, from.x, from.y + call.argY, COLLISION_BOXES) )
      => (player.x = from.x /\ player.y = from.y + call.argY)

\* C9: at most one frame callback is outstanding and a host frame runs
\* update-then-render at most once, whatever the order of start, pause,
\* resume and host frames.
SingleFrameLoop ==
  /\ pending <= 1
  /\ frameRuns <= 1

\* C10: start() or resume() while the loop is running requests no frame
\* callback and changes neither isRunning nor lastFrameTime.
StartResumeIdempotentWhileRunning ==
  [][(isRunning /\ (start \/ resume))
       => UNCHANGED <<isRunning, lastFrameTime, pending>>]_vars

\* C10 witness: start() or resume() was called on a running loop, after the
\* clock had moved on from the recorded frame time.
StartOrResumeCalledWhileRunning ==
  /\ lifecycle.op \in {"start", "resume"}
  /\ lifecycle.wasRunning
  /\ isRunning
  /\ pending = 1
  /\ now > lastFrameTime

\* C5 (as amended): with the top wall as the only obstacle, the 16x32 player at
\* (500,40) attempting dy = -10 is not blocked: it ends at y = 30, flush with
\* the wall's lower edge, and the move is reported as successful.
TopWallScenarioAttempted ==
  /\ call.op = "move"
  /\ call.boxes = "topwall"
  /\ call.argX = 0
  /\ call.argY = -10
  /\ player.lastPosition = [x |-> 500, y |-> 40]

TopWallMoveToEdgeAccepted ==
  TopWallScenarioAttempted => (player.x = 500 /\ player.y = 30 /\ moved)

\* C5 witness: the scenario's move was made
TopWallScenarioReached ==
  /\ TopWallScenarioAttempted
  /\ player.width = 16
  /\ player.height = 32

\* C5 as stated: the attempt is blocked on Y, y stays 40
TopWallMoveBlocked ==
  TopWallScenarioAttempted => (player.y = 40 /\ ~ moved)

\* C7: after any sequence of entity operations every entity's rectangle lies
\* inside the world.
EntitiesStayInsideWorld ==
  /\ InsideWorld(getBounds(player))
  /\ InsideWorld(getBounds(ent))

\* C8: setPosition and moveBy leave the entity inside the world for every
\* input, and store an input that is already inside unchanged.
SetPositionClampsIntoWorld ==
  [][ /\ InsideWorld(getBounds(ent'))
      /\ ( ( /\ call'.op = "setPosition"
             /\ InsideWorld(Rect(call'.argX, call'.argY, ent.width, ent.height)) )
           => (ent'.x = call'.argX /\ ent'.y = call'.argY) )
      /\ ( ( /\ call'.op = "moveBy"
             /\ InsideWorld(Rect(ent.x + call'.argX, ent.y + call'.argY,
                                 ent.width, ent.height)) )
           => (ent'.x = ent.x + call'.argX /\ ent'.y = ent.y + call'.argY) )
    ]_vars

\* C8 witness: setPosition was given a point beyond the right edge and above
\* the top edge, and the entity sits in the corner
SetPositionOutOfRangeClamped ==
  /\ call.op = "setPosition"
  /\ call.argX > CANVAS_WIDTH
  /\ call.argY < 0
  /\ ent.x = CANVAS_WIDTH - ent.width
  /\ ent.y = 0

\* the rectangle the response places the entity at
Adjusted == Rect(result.val.adjustedX, result.val.adjustedY,
                 query.rect.width, query.rect.height)

\* C2: for an entity that overlaps no obstacle and lies inside the world, the
\* rectangle at the (adjustedX, adjustedY) of getMovementResponse overlaps no
\* obstacle and lies inside the world, for every displacement.
ResponseNeverInObstacleOrOutside ==
  ( /\ result.fn = "getMovementResponse"
    /\ ~ checkCollision(query.rect, query.boxes)
    /\ InsideWorld(query.rect) )
  => ( /\ ~ checkCollision(Adjusted, query.boxes)
       /\ InsideWorld(Adjusted) )

XOnlyHits == checkCollision(Rect(query.rect.x + query.dx, query.rect.y,
                                 query.rect.width, query.rect.height), query.boxes)

YOnlyHits == checkCollision(Rect(query.rect.x, query.rect.y + query.dy,
                                 query.rect.width, query.rect.height), query.boxes)

FullHits == checkCollision(Rect(query.rect.x + query.dx, query.rect.y + query.dy,
                                query.rect.width, query.rect.height), query.boxes)

\* C4: when the full target collides, getMovementResponse keeps the coordinate
\* of each axis whose single-axis target collides and takes the full
\* displacement on each axis whose single-axis target is free, and reports the
\* two axes in canMoveX and canMoveY.
ResponseSlidesAlongFreeAxis ==
  (result.fn = "getMovementResponse" /\ FullHits)
  => LET r == result.val
     IN  /\ ~ r.canMove
         /\ ( (XOnlyHits /\ ~ YOnlyHits)
              => ( /\ r.adjustedX = query.rect.x
                   /\ ~ r.canMoveX
                   /\ r.adjustedY = query.rect.y + query.dy
                   /\ r.canMoveY ) )
         /\ ( (YOnlyHits /\ ~ XOnlyHits)
              => ( /\ r.adjustedY = query.rect.y
                   /\ ~ r.canMoveY
                   /\ r.adjustedX = query.rect.x + query.dx
                   /\ r.canMoveX ) )
         /\ ( (XOnlyHits /\ YOnlyHits)
              => ( /\ r.adjustedX = query.rect.x
                   /\ r.adjustedY = query.rect.y
                   /\ ~ r.canMoveX
                   /\ ~ r.canMoveY ) )

\* C4 witness: a diagonal query from a free position whose X-only target
\* collides and whose Y-only target is free has been answered
ResponseForBlockedX ==
  /\ result.fn = "getMovementResponse"
  /\ query.dx # 0
  /\ query.dy # 0
  /\ ~ checkCollision(query.rect, query.boxes)
  /\ FullHits
  /\ XOnlyHits
  /\ ~ YOnlyHits

\* the extent two rectangles share on each axis
SharedX(a, b) == MathMin(a.x + a.width, b.x + b.width) - MathMax(a.x, b.x)
SharedY(a, b) == MathMin(a.y + a.height, b.y + b.height) - MathMax(a.y, b.y)

StrictOverlap(a, b) == SharedX(a, b) > 0 /\ SharedY(a, b) > 0

\* C6: isColliding is true exactly when the rectangles overlap strictly on
\* both axes (a shared edge or corner is no collision), it is symmetric, and
\* canMoveTo accepts a target that touches obstacle edges or world boundaries.
CollisionIsStrictOverlap ==
  /\ (result.fn = "isColliding"
       => ( /\ result.val = StrictOverlap(query.rect, query.boxes[1])
            /\ result.val = isColliding(query.boxes[1], query.rect) ))
  /\ (result.fn = "canMoveTo"
       => result.val =
            ( /\ InsideWorld(query.rect)
              /\ \A i \in 1..Len(query.boxes) :
                    ~ StrictOverlap(query.rect, query.boxes[i]) ))

\* C6 witness: canMoveTo accepted a target flush with the top wall's lower
\* edge and with the world's right boundary
TouchingTargetAccepted ==
  /\ result.fn = "canMoveTo"
  /\ result.val
  /\ query.boxes = TopWallOnly
  /\ query.rect.y = 30
  /\ query.rect.x + query.rect.width = CANVAS_WIDTH

----------------------------------------------------------------------------
(* Claims on the frame scheduler's pause and teardown *)

\* C11: while the last lifecycle call is pause(), a host frame that fires the
\* outstanding callbacks executes no frame: no update (player, dogs and audio
\* keep their values), no render (the record of the latest executed frame is
\* not rewritten), lastFrameTime is unchanged and no callback is requested.
PausedCallbackDoesNothing ==
  [][(lifecycle.op = "pause" /\ hostFrame)
       => /\ frameRuns' = 0
          /\ pending' = 0
          /\ UNCHANGED <<lastFrameTime, player, moved, dogs, audio, frame>>]_vars

\* C11 witness: pause() was called on the running game and the callback that
\* was outstanding has since fired without executing a frame
PausedCallbackFired ==
  /\ lifecycle = [op |-> "pause", wasRunning |-> TRUE]
  /\ pending = 0
  /\ frameRuns = 0

\* C12: a host frame that fires before start() was ever called, or after
\* destroy() was called, executes no frame
NoFrameWhileStopped ==
  [][((~ history.started \/ history.destroyed) /\ hostFrame) => frameRuns' = 0]_vars

----------------------------------------------------------------------------
(* Claims on the order of a frame *)

CanonicalOrder ==
  <<"updatePlayer", "updateDogs", "updateUI", "render", "lastFrameTime",
    "requestAnimationFrame">>

NamesOf(ds) == [i \in 1..Len(ds) |-> ds[i].name]

\* the squared centre distance of dog d and player p, in quarter pixels
CentreDistanceSq(d, p) ==
  LET c1 == getCenter(d, 2)
      c2 == getCenter(p, 1)
  IN  (c1.x - c2.x) * (c1.x - c2.x) + (c1.y - c2.y) * (c1.y - c2.y)

\* the radius of d in quarter pixels, squared
RadiusSq(d) ==
  IF d.name = "Me"
  THEN (4 * ME_INTERACTION_DISTANCE) * (4 * ME_INTERACTION_DISTANCE)
  ELSE (4 * INTERACTION_DISTANCE) * (4 * INTERACTION_DISTANCE)

\* C13: every executed frame runs, in this order, the player's movement
\* attempt, the tick of every dog in list order, the UI bookkeeping, render,
\* lastFrameTime := now and the request for the next frame; and at the end of
\* the frame every dog is in 'jump' exactly when the player's position after
\* the frame's movement is within the dog's radius.
FrameOrderAndFreshDogs ==
  frame # NoFrame =>
    /\ frame.order = CanonicalOrder
    /\ frame.ticked = NamesOf(dogs)
    /\ lastFrameTime = now
    /\ pending = 1
    /\ \A i \in 1..Len(dogs) :
         dogs[i].state = "jump" <=> CentreDistanceSq(dogs[i], player) < RadiusSq(dogs[i])

\* C20: a frame in which the tick of a dog threw has still ticked every dog
EveryDogTickedDespiteThrow ==
  frame.caught => frame.ticked = NamesOf(dogs)

----------------------------------------------------------------------------
(* Claims on a dog's proximity state machine *)

\* C14: after any sequence of update(player) and reset() calls, barked is true
\* if and only if state = 'jump'
LatchAgreesWithState ==
  \A i \in 1..Len(dogs) : dogs[i].barked <=> dogs[i].state = "jump"

\* C14 witness: a dog that had jumped and barked was reset
JumpingDogReset ==
  /\ tickLog.op = "reset"
  /\ tickLog.before.state = "jump"
  /\ tickLog.before.barked
  /\ dogs[1].state = "sit"

\* the audio calls a dog makes when the player enters, and when the player leaves
EnterEffects(d) ==
  IF d.name = "Me" THEN {"bgMusic.volume=0", "happybday.play"}
  ELSE IF d.audio THEN {"bark.play"}
  ELSE {}

ExitEffects(d) ==
  IF d.name = "Me" THEN {"happybday.pause", "bgMusic.volume=1"} ELSE {}

EveryEnterEffect == {"bgMusic.volume=0", "happybday.play", "bark.play"}

\* C15: over ticks alone, a tick inside the radius that follows no tick inside
\* the radius goes to 'jump' and makes the enter calls (bark playback; muting
\* bgMusic and starting the song for Me); every other tick makes none of them
EnterFiresOncePerRun ==
  tickLog.op = "update" =>
    IF tickLog.inside /\ ~ tickLog.wasInside
    THEN /\ tickLog.before.state = "sit"
         /\ dogs[1].state = "jump"
         /\ tickLog.effects = EnterEffects(dogs[1])
    ELSE tickLog.effects \cap EveryEnterEffect = {}

\* C15 witness: a second consecutive tick inside the radius of a dog that has
\* its bark, and no audio call
SecondTickInsideIsSilent ==
  /\ tickLog.op = "update"
  /\ tickLog.inside
  /\ tickLog.wasInside
  /\ dogs[1].name = "Me" \/ dogs[1].audio
  /\ tickLog.effects = {}

\* C16: over ticks alone, enter and exit alternate, beginning with an enter:
\* a tick acts on entering only if the last acting tick was no enter, and on
\* leaving only if it was an enter; the player is inside at centre distances
\* 80 and 90 short of a radius of 100 and outside at 110; an exit puts the dog
\* in 'sit' with the latch cleared and, for Me, pauses the song and restores
\* the volume of bgMusic
EnterAndExitAlternate ==
  tickLog.op = "update" =>
    /\ tickLog.event = "enter" =>
         /\ tickLog.priorEvent # "enter"
         /\ tickLog.inside
         /\ dogs[1].state = "jump"
    /\ tickLog.event = "exit" =>
         /\ tickLog.priorEvent = "enter"
         /\ dogs[1].state = "sit"
         /\ ~ dogs[1].barked
         /\ tickLog.effects = ExitEffects(dogs[1])
         /\ dogs[1].name = "Me" => (audio.happybday = "paused" /\ audio.bgVolume = 10)
    /\ tickLog.other \in {probeAt(dogs[1], 80), probeAt(dogs[1], 90)} =>
         (tickLog.event = "enter" <=> tickLog.priorEvent # "enter")
    /\ tickLog.other = probeAt(dogs[1], 110) =>
         (tickLog.event = "exit" <=> tickLog.priorEvent = "enter")

\* C16 witness: after an enter and an exit, the tick at distance 80 is a second enter
ReenteredAfterExit ==
  /\ tickLog.op = "update"
  /\ tickLog.other = probeAt(dogs[1], 80)
  /\ tickLog.event = "enter"
  /\ tickLog.priorEvent = "exit"

\* C17: a tick on the same side of the radius as the tick before it leaves
\* the dog as it was and makes no audio call; and no tick writes
\* stateChangeTime without changing state
SameSideTickChangesNothing ==
  tickLog.op = "update" =>
    /\ (tickLog.hadPrevious /\ tickLog.inside = tickLog.wasInside) =>
         /\ dogs[1] = tickLog.before
         /\ tickLog.effects = {}
    /\ dogs[1].stateChangeTime # tickLog.before.stateChangeTime =>
         dogs[1].state # tickLog.before.state

\* C17 witness: a later tick outside the radius follows a tick outside it
SecondTickOutsideLater ==
  /\ tickLog.op = "update"
  /\ tickLog.hadPrevious
  /\ ~ tickLog.inside
  /\ ~ tickLog.wasInside
  /\ now > dogs[1].stateChangeTime

\* C18: a dog starts in 'sit'; after update(player) with a valid player it is
\* in 'jump' exactly when the centre distance is strictly below its radius
\* (150 for Me, 100 for the others)
JumpIffStrictlyWithinRadius ==
  /\ tickLog.op = "none" => dogs[1].state = "sit"
  /\ tickLog.op = "update" =>
       (dogs[1].state = "jump"
          <=> CentreDistanceSq(dogs[1], tickLog.other) < RadiusSq(dogs[1]))

\* C18 witness: a jumping dog was ticked at a distance equal to its radius and sat
TickAtRadiusSits ==
  /\ tickLog.op = "update"
  /\ CentreDistanceSq(dogs[1], tickLog.other) = RadiusSq(dogs[1])
  /\ tickLog.before.state = "jump"
  /\ dogs[1].state = "sit"

\* C19: a tick whose player is missing or has coordinates that are not
\* numbers leaves state, barked and stateChangeTime as they were
InvalidPlayerHoldsState ==
  (tickLog.op = "update" /\ ~ (tickLog.other.given /\ tickLog.other.numeric)) =>
    /\ dogs[1].state = tickLog.before.state
    /\ dogs[1].barked = tickLog.before.barked
    /\ dogs[1].stateChangeTime = tickLog.before.stateChangeTime

----------------------------------------------------------------------------
(* Claims on errors, the bump sound and input *)

\* C21: a frame in which update or render caught an error still leaves the
\* game Running with lastFrameTime written and the next frame requested, and
\* while the host goes on firing callbacks the next frame executes.
ErrorDoesNotStopScheduler ==
  /\ [](frame.caught \/ frame.renderCaught
          => isRunning /\ lastFrameTime = now /\ pending = 1)
  /\ \A t \in 1..(MaxFrames - 1) :
       (now = t /\ (frame.caught \/ frame.renderCaught))
         ~> (now = t + 1 /\ frameRuns = 1 /\ lastFrameTime = t + 1)

\* C21 witness: happybday.play() threw in an earlier frame (Me jumps and the
\* music is muted, yet the song is not playing) and the latest frame ran in full
FrameRanAfterFailedFrame ==
  /\ dogs[3].state = "jump"
  /\ audio.happybday = "paused"
  /\ ~ frame.caught
  /\ ~ frame.renderCaught
  /\ frame.order = CanonicalOrder
  /\ lastFrameTime = now

\* the latest handler was a frame whose movement attempt Player.move refused
Blocked ==
  /\ log.op = "frame"
  /\ movement.dx # 0 \/ movement.dy # 0
  /\ ~ moved

\* C22: bump sounds are debounced by the cooldown: a bump is emitted only in
\* a frame with a blocked attempt; a blocked attempt at least bumpCooldown
\* after the last emitted bump (or with none emitted yet) emits one, a blocked
\* attempt less than bumpCooldown after it emits none, so two emitted bumps
\* are at least bumpCooldown apart.
BumpsDebounced ==
  log.op = "frame" =>
    /\ frame.bumped => Blocked
    /\ (Blocked /\ now - log.lastBump >= bumpCooldown) => frame.bumped
    /\ (Blocked /\ now - log.lastBump < bumpCooldown) => ~ frame.bumped
    /\ frame.bumped => lastBumpTime = now /\ now - log.lastBump >= bumpCooldown

\* C22 amended: the same, for blocked attempts made once the background music
\* has started; before that no bump is emitted at all.
BumpsDebouncedOnceMusicStarted ==
  log.op = "frame" =>
    /\ frame.bumped => Blocked /\ log.started
    /\ (Blocked /\ log.started /\ now - log.lastBump >= bumpCooldown) => frame.bumped
    /\ (Blocked /\ now - log.lastBump < bumpCooldown) => ~ frame.bumped
    /\ frame.bumped => lastBumpTime = now /\ now - log.lastBump >= bumpCooldown
    /\ ~ frame.bumped => lastBumpTime = log.lastBump

\* C22 witness: a second bump, a full cooldown after the first
SecondBumpAfterCooldown ==
  /\ Blocked
  /\ frame.bumped
  /\ log.lastBump > PageLoad
  /\ now - log.lastBump = bumpCooldown

\* the displacement along one axis alone is asked for and legal
XOnlyLegal ==
  /\ call.argX # 0
  /\ canMoveTo(log.before, log.before.x + call.argX, log.before.y, COLLISION_BOXES)

YOnlyLegal ==
  /\ call.argY # 0
  /\ canMoveTo(log.before, log.before.x, log.before.y + call.argY, COLLISION_BOXES)

\* C23: a bump is emitted only by an attempt with non-zero intent in which
\* neither the X-only nor the Y-only displacement is legal; a diagonal
\* attempt with one free axis emits none.
BumpOnlyWhenBothAxesFail ==
  (log.op = "frame" /\ frame.bumped) =>
    /\ movement.dx # 0 \/ movement.dy # 0
    /\ ~ XOnlyLegal
    /\ ~ YOnlyLegal

\* C24: a frame whose input carries a direction leaves the player facing it,
\* committed or not; a blocked attempt leaves the position as it was; the
\* facing direction is always one of the four, and setDirection with any
\* other value changes nothing.
FacingFollowsIntent ==
  /\ player.direction \in Directions
  /\ (log.op = "frame" /\ movement.direction # "null")
       => player.direction = movement.direction
  /\ Blocked
       => player = [log.before EXCEPT !.direction = movement.direction,
                                      !.lastPosition = [x |-> log.before.x,
                                                        y |-> log.before.y]]
  /\ (log.op = "setDirection" /\ log.asked \notin Directions)
       => player = log.before
  /\ (log.op = "setDirection" /\ log.asked \in Directions)
       => player = [log.before EXCEPT !.direction = log.asked]

\* C24 witness: the player, facing another way, pressed up into the wall: it
\* now faces up and has not moved
TurnedIntoTheWall ==
  /\ Blocked
  /\ movement.direction = "up"
  /\ log.before.direction # "up"
  /\ player.direction = "up"
  /\ player.x = log.before.x
  /\ player.y = log.before.y

\* C26: of two committed frames in a row with the same keys held, each moves
\* the player in proportion to its deltaTime.
DisplacementScalesWithDeltaTime ==
  (/\ log.op = "frame"
   /\ Len(log.prev) = 1
   /\ log.dx # 0 \/ log.dy # 0
   /\ log.prev[1].dx # 0 \/ log.prev[1].dy # 0)
    => /\ log.dx * log.prev[1].deltaTime = log.prev[1].dx * log.deltaTime
       /\ log.dy * log.prev[1].deltaTime = log.prev[1].dy * log.deltaTime

\* the list holds an undefined entry or an obstacle without positive width
\* and height
HasMalformed(boxes) ==
  \E i \in 1..Len(boxes) :
    IF IsUndefined(boxes[i]) THEN TRUE
    ELSE boxes[i].width <= 0 \/ boxes[i].height <= 0

\* C25: a move against a list with a malformed obstacle is refused, leaves
\* the position as it was and is logged; a collision check that ended in an
\* error does not answer 'no collision'.
MalformedObstacleRejectsMove ==
  HasMalformed(query.boxes) =>
    /\ result.fn = "move"
         => /\ ~ result.moved
            /\ result.x = query.rect.x
            /\ result.y = query.rect.y
            /\ result.logged
    /\ (result.fn = "checkCollision" /\ result.error) => result.val

\* a movement key of the pair is held
Held(a, b) == a \in keys \/ b \in keys

\* C27: getMovementInput returns dx and dy in {-1, 0, 1}; with no movement
\* key held it returns dx = 0, dy = 0 and no direction; a direction is
\* present exactly when dx or dy is non-zero; right wins over left and down
\* over up.
MovementInputIsNormalised ==
  result.fn = "getMovementInput" =>
    LET m == result.val
    IN  /\ m.dx \in {-1, 0, 1}
        /\ m.dy \in {-1, 0, 1}
        /\ m.direction \in Directions \cup {"null"}
        /\ keys \cap MoveKeys = {} => m = [dx |-> 0, dy |-> 0, direction |-> "null"]
        /\ m.direction # "null" <=> (m.dx # 0 \/ m.dy # 0)
        /\ m.dx = 1 <=> Held("ArrowRight", "d")
        /\ m.dx = -1 <=> (Held("ArrowLeft", "a") /\ ~ Held("ArrowRight", "d"))
        /\ m.dy = 1 <=> Held("ArrowDown", "s")
        /\ m.dy = -1 <=> (Held("ArrowUp", "w") /\ ~ Held("ArrowDown", "s"))

\* C27 witness: left and right, up and down are all held: the input is right
\* and down
OppositeKeysHeld ==
  /\ result.fn = "getMovementInput"
  /\ {"ArrowLeft", "d", "w", "ArrowDown"} \subseteq keys
  /\ result.val.dx = 1
  /\ result.val.dy = 1

----------------------------------------------------------------------------
(* Claims on dialogs and the mailbox *)

NearNoDog ==
  \A i \in 1..Len(dogs) : CentreDistanceSq(dogs[i], player) >= RadiusSq(dogs[i])

\* the player's centre is less than the mailbox interaction distance from
\* the mailbox's centre
NearMailbox ==
  LET dx == (player.x + PLAYER_WIDTH \div 2) - (MAILBOX_X + MAILBOX_SIZE \div 2)
      dy == (player.y + PLAYER_HEIGHT \div 2) - (MAILBOX_Y + MAILBOX_SIZE \div 2)
  IN  dx * dx + dy * dy < MAILBOX_INTERACTION_DISTANCE * MAILBOX_INTERACTION_DISTANCE

\* C29: once a frame has run, whenever the player is within the radius of no
\* dog the dog dialog is closed and the talk prompt is hidden.
DialogClosedAwayFromDogs ==
  (frame # NoFrame /\ NearNoDog) => (~ ui.dialog /\ ui.talkPrompt = "none")

\* C29 witness: the frame found Roti's dialog open and the player walked out
\* of range in it: the dialog is closed
DialogClosedByWalkingAway ==
  /\ log.op = "frame"
  /\ log.dialog
  /\ ui.dialogName = "Roti"
  /\ NearNoDog
  /\ ~ ui.dialog

----------------------------------------------------------------------------
(* Claims on the mail list and the video modal *)

ArrowsMatchPosition ==
  LET i == mail.currentVideoIndex
      N == mail.count
  IN  /\ (/\ log.op \in {"playVideo", "navigateVideo"}
          /\ ~ log.logged
          /\ mail.videoModal = "flex")
           => /\ mail.videoNavLeftHidden <=> (i = 0 \/ N = 1)
              /\ mail.videoNavRightHidden <=> (i = N - 1 \/ N = 1)
      /\ (/\ log.op = "navigateVideo"
          /\ log.before.videoModal = "flex"
          /\ log.arg = -1 => ~ log.before.videoNavLeftHidden
          /\ log.arg = 1 => ~ log.before.videoNavRightHidden)
           => /\ i = log.before.currentVideoIndex + log.arg
              /\ i \in 0..(N - 1)

\* C32 witness: the next arrow of the middle video of three led to the last,
\* where the previous arrow shows and the next one is hidden
NavigatedToLastVideo ==
  /\ log.op = "navigateVideo"
  /\ log.arg = 1
  /\ mail.count = 3
  /\ log.before.videoModal = "flex"
  /\ log.before.currentVideoIndex = 1
  /\ ~ log.before.videoNavLeftHidden
  /\ ~ log.before.videoNavRightHidden
  /\ mail.currentVideoIndex = 2
  /\ ~ mail.videoNavLeftHidden
  /\ mail.videoNavRightHidden

\* C35: while closeMailbox has run and openMailbox has not been called
\* since, the mail list is hidden.
ClosedMailboxStaysHidden == WasClosed => mail.mailContainer = "none"

\* C39: playVideo with an index outside 0..N-1 fails and leaves
\* currentVideoIndex and viewedMessages as they were; currentVideoIndex is in
\* -1..N-1 and viewedMessages within 0..N-1; a viewed message stays viewed
\* until resetViewedMessages; navigateVideo with no video open does nothing.
MailIndexAndViewedStayValid ==
  /\ mail.currentVideoIndex \in -1..(mail.count - 1)
  /\ mail.viewedMessages \subseteq 0..(mail.count - 1)
  /\ (log.op = "playVideo" /\ log.arg \notin 0..(mail.count - 1))
       => /\ log.logged
          /\ mail.currentVideoIndex = log.before.currentVideoIndex
          /\ mail.viewedMessages = log.before.viewedMessages
  /\ ("before" \in DOMAIN log /\ log.op # "resetViewedMessages")
       => log.before.viewedMessages \subseteq mail.viewedMessages
  /\ (log.op = "navigateVideo" /\ log.before.videoModal = "none")
       => mail = log.before

----------------------------------------------------------------------------
(* Claims on EventEmitter *)

\* C33: emit invokes every listener registered when it is called once, in
\* registration order, whatever a listener throws or removes, and returns
\* false only when no listener is registered.
EmitInvokesEveryListenerOnce ==
  log.op = "emit" =>
    /\ log.invoked = log.before.listeners
    /\ ~ log.returned <=> log.before.listeners = <<>>

\* C34: a callback registered with once() is invoked at most once over all
\* emits, and is not registered any more after the first emit that follows
\* its registration.
OnceListenerRunsAtMostOnce ==
  \A id \in 1..Len(emitter.kinds) :
    emitter.kinds[id] \in {"once", "onceThrows"} =>
      /\ emitter.calls[id] <= 1
      /\ (log.op = "emit" /\ \E i \in 1..Len(log.before.listeners) :
                               log.before.listeners[i] = id)
           => ~ \E i \in 1..Len(emitter.listeners) : emitter.listeners[i] = id

----------------------------------------------------------------------------
(* Claims on the background music, AssetLoader and InputManager *)

\* C36: while Me is in state jump and its song plays, the volume of the
\* background music is 0; and a step in which Me returns to sit leaves the
\* volume at 1 and the song paused.
MeJumpingMutesMusic ==
  /\ [](\A i \in 1..Len(dogs) :
          (dogs[i].name = "Me" /\ dogs[i].state = "jump" /\ audio.happybday = "playing")
            => audio.bgVolume = 0)
  /\ [][(dogs[1].name = "Me" /\ dogs[1].state = "jump" /\ dogs'[1].state = "sit")
          => (audio'.bgVolume = 10 /\ audio'.happybday = "paused")]_vars

\* C37: at most one load of a src is in progress; currentlyLoading is the
\* number of loads in progress; a call for a cached src or for a src that is
\* loading starts no load; after a failed load the src is not marked as
\* loading.
OneLoadPerSource ==
  /\ \A src \in ImageSrcs : loader.inFlight[src] <= 1
  /\ currentlyLoading(loader) = loader.inFlight["BACKGROUND"] + loader.inFlight["ME"]
  /\ log.op = "loadImage"
       => /\ log.answer = "cached" <=> log.src \in log.before.loadedImages
          /\ log.answer # "new" => loader = log.before
  /\ log.op = "onerror" => log.src \notin loader.loadingPromises

\* C38: a keydown of a key that is held emits nothing and changes nothing
\* but the log; after a keydown the key is in the pressed set, after a keyup
\* it is not, and no other key enters or leaves the set.
OnePressPerKeyPress ==
  [][(log' # log \/ keys' # keys) =>
       LET k == log'.key
       IN  /\ log'.op \in {"keydown", "interact"}
                => /\ k \in keys'
                   /\ k \in keys
                        => /\ log'.emitted = <<>>
                           /\ log'.op = "keydown"
                           /\ ui' = ui
                           /\ opens' = opens
                           /\ musicRequested' = musicRequested
                   /\ k \notin keys => log'.emitted[1] = "keydown"
           /\ log'.op = "keyup" => k \notin keys'
           /\ \A j \in KeyboardKeys \ {k} : j \in keys' <=> j \in keys]_vars

\* C38 witness: E was held and a further keydown of E came: nothing was
\* emitted
RepeatedKeyDownOfHeldKey ==
  /\ log.op = "keydown"
  /\ log.key = "e"
  /\ log.repeat
  /\ log.emitted = <<>>
  /\ "e" \in keys

====
